---- MODULE Spec2Model ----
(***************************************************************************)
(* Model of the website mirror engine (src/src/downloader.rs,              *)
(* src/src/html_parser.rs, src/src/file_manager.rs).                       *)
(*                                                                         *)
(* Strings of the program are sequences of one-character strings, so that  *)
(* ends_with, contains, replace and the sanitizer are computed character   *)
(* by character as the code computes them.  A URL is the record of the     *)
(* components url::Url parses it into; UrlString gives its serialization.  *)
(***************************************************************************)
EXTENDS Integers, Sequences, FiniteSets, TLC

VARIABLES
    max_depth,          \* WebsiteMirror.max_depth
    only_resources,     \* WebsiteMirror.only_resources: None, or Some(list of strings)
    convert_to_webp,    \* WebsiteMirror.convert_to_webp
    clear_store,        \* argument clear_store of WebsiteMirror::new
    store_file,         \* contents of <output_dir>/.download_store.json
    store_at_start,     \* what that file held when the run began
    persistent_store,   \* WebsiteMirror.persistent_store.downloads (URL -> local path)
    visited_urls,       \* WebsiteMirror.visited_urls
    disk,               \* files under output_dir: path -> URL whose bytes it holds
    stack,              \* call stack of process_page activations, innermost last
    phase,              \* position of main / mirror_website
    result,             \* what mirror_website returned
    faults,             \* number of failures injected so far
    last_error,         \* the failure the last step ran into, "none" if it did not
    trace,              \* history of the run: calls, fetches, writes
    probe               \* last application of a pure function: input and output

vars == <<max_depth, only_resources, convert_to_webp, clear_store, store_file,
          store_at_start,
          persistent_store, visited_urls, disk, stack, phase, result, faults,
          last_error, trace, probe>>

----------------------------------------------------------------------------
(* Bounds of the model *)

\* max_depth is drawn from 0..MaxDepthCfg
MaxDepthCfg == 1
\* pages /p1 .. /p<ChainLen> linked in a chain behind the seed page
ChainLen == 2
\* at most this many fetches / writes fail in one run
MaxFaults == 2
\* allow-lists given to should_process_resource_type have at most this many entries
MaxListLen == 2

----------------------------------------------------------------------------
(* Strings *)

StartsWith(s, pre) ==
    /\ Len(s) >= Len(pre)
    /\ SubSeq(s, 1, Len(pre)) = pre

EndsWith(s, suf) ==
    /\ Len(s) >= Len(suf)
    /\ SubSeq(s, Len(s) - Len(suf) + 1, Len(s)) = suf

Contains(s, c) == \E i \in 1..Len(s) : s[i] = c

UpperChars == <<"A","B","C","D","E","F","G","H","I","J","K","L","M",
                "N","O","P","Q","R","S","T","U","V","W","X","Y","Z">>
LowerChars == <<"a","b","c","d","e","f","g","h","i","j","k","l","m",
                "n","o","p","q","r","s","t","u","v","w","x","y","z">>
DigitChars == <<"0","1","2","3","4","5","6","7","8","9">>

IsUpper(c) == \E i \in 1..26 : UpperChars[i] = c
IsLower(c) == \E i \in 1..26 : LowerChars[i] = c
IsDigit(c) == \E i \in 1..10 : DigitChars[i] = c

\* char::is_ascii_alphanumeric
IsAsciiAlphanumeric(c) == IsUpper(c) \/ IsLower(c) \/ IsDigit(c)

\* str::to_lowercase, on ASCII text
ToLowerChar(c) ==
    IF IsUpper(c) THEN LowerChars[CHOOSE i \in 1..26 : UpperChars[i] = c] ELSE c

ToLowercase(s) == [i \in 1..Len(s) |-> ToLowerChar(s[i])]

\* position of the first occurrence of pat in s at or after index from, 0 if none
MinOrZero(hits) == IF hits = {} THEN 0 ELSE CHOOSE i \in hits : \A j \in hits : i <= j

MaxOrZero(hits) == IF hits = {} THEN 0 ELSE CHOOSE i \in hits : \A j \in hits : j <= i

FindFrom(s, pat, from) ==
    MinOrZero({i \in from..(Len(s) - Len(pat) + 1) : SubSeq(s, i, i + Len(pat) - 1) = pat})

\* str::replace: every non-overlapping occurrence of pat, left to right
RECURSIVE ReplaceFrom(_, _, _, _)

\* i is where pat is found next, 0 if nowhere
ReplaceAt(s, pat, rep, from, i) ==
    IF i = 0 THEN SubSeq(s, from, Len(s))
    ELSE SubSeq(s, from, i - 1) \o rep \o ReplaceFrom(s, pat, rep, i + Len(pat))

ReplaceFrom(s, pat, rep, from) == ReplaceAt(s, pat, rep, from, FindFrom(s, pat, from))

Replace(s, pat, rep) == ReplaceFrom(s, pat, rep, 1)

\* s.split('/').filter(|s| !s.is_empty()) joined again: the path components
RECURSIVE Segments(_)

\* i is where the first '/' of s is, 0 if it has none
SegmentsAt(s, i) ==
    IF i = 0 THEN <<s>>
    ELSE IF i = 1 THEN Segments(Tail(s))
    ELSE <<SubSeq(s, 1, i - 1)>> \o Segments(SubSeq(s, i + 1, Len(s)))

Segments(s) == IF s = <<>> THEN <<>> ELSE SegmentsAt(s, FindFrom(s, <<"/">>, 1))

RECURSIVE JoinSegments(_)
JoinSegments(segs) ==
    IF segs = <<>> THEN <<>>
    ELSE IF Len(segs) = 1 THEN segs[1]
    ELSE segs[1] \o <<"/">> \o JoinSegments(Tail(segs))

----------------------------------------------------------------------------
(* Extensions the code matches with ends_with / replace *)

ExtJpg   == <<".","j","p","g">>
ExtJpeg  == <<".","j","p","e","g">>
ExtPng   == <<".","p","n","g">>
ExtJPG   == <<".","J","P","G">>
ExtJPEG  == <<".","J","P","E","G">>
ExtPNG   == <<".","P","N","G">>
ExtWebp  == <<".","w","e","b","p">>
ExtWEBP  == <<".","W","E","B","P">>
ExtGif   == <<".","g","i","f">>
ExtPdf   == <<".","p","d","f">>
ExtPDF   == <<".","P","D","F">>
ExtMp4   == <<".","m","p","4">>
ExtMP4   == <<".","M","P","4">>

----------------------------------------------------------------------------
(* Ordering of strings: Vec<String>::sort compares bytes *)

AsciiOrder == <<"#", "-", ".", "/">> \o DigitChars \o <<":", "?">> \o UpperChars
              \o <<"_">> \o LowerChars

Code(c) == CHOOSE i \in 1..Len(AsciiOrder) : AsciiOrder[i] = c

RECURSIVE LexLess(_, _)
LexLess(s, t) ==
    IF t = <<>> THEN FALSE
    ELSE IF s = <<>> THEN TRUE
    ELSE IF Code(Head(s)) # Code(Head(t)) THEN Code(Head(s)) < Code(Head(t))
    ELSE LexLess(Tail(s), Tail(t))

----------------------------------------------------------------------------
(* URLs *)

Url(host, path, query, frag) == [host |-> host, path |-> path, query |-> query, frag |-> frag]

Https == <<"h","t","t","p","s",":","/","/">>

\* Url::to_string / Url::as_str
UrlString(u) ==
    Https \o u.host \o u.path
    \o (IF u.query # <<>> THEN <<"?">> \o u.query ELSE <<>>)
    \o (IF u.frag # <<>> THEN <<"#">> \o u.frag ELSE <<>>)

HostT == <<"e",".","c">>            \* the target host
HostS == <<"s",".","e",".","c">>    \* a subdomain of the target host
HostX == <<"x","e",".","c">>        \* another host whose name ends in the target's
HostD == <<"d",".","c">>            \* an unrelated host

\* stands for "no page": the caller is mirror_website
NoUrl == Url(<<>>, <<>>, <<>>, <<>>)

\* WebsiteMirror.base_url
base_url == Url(HostT, <<"/">>, <<>>, <<>>)

PageUrl(i)  == Url(HostT, <<"/","p", DigitChars[i + 1]>>, <<>>, <<>>)
SubPageUrl  == Url(HostS, <<"/","q">>, <<>>, <<>>)
NearPageUrl == Url(HostX, <<"/","r">>, <<>>, <<>>)
ExtPageUrl  == Url(HostD, <<"/","z">>, <<>>, <<>>)
CssT        == Url(HostT, <<"/","a",".","c","s","s">>, <<>>, <<>>)
CssD        == Url(HostD, <<"/","a",".","c","s","s">>, <<>>, <<>>)
ImgT        == Url(HostT, <<"/","b",".","j","p","g">>, <<>>, <<>>)
PdfD        == Url(HostD, <<"/","f",".","p","d","f">>, <<>>, <<>>)
JsD         == Url(HostD, <<"/","s",".","j","s">>, <<>>, <<>>)
IconT       == Url(HostT, <<"/","f",".","i","c","o">>, <<>>, <<>>)

ChainPages == {PageUrl(i) : i \in 1..ChainLen}

----------------------------------------------------------------------------
(* The site served by the fetch capability *)

Elem(tag, rel, ref) == [tag |-> tag, rel |-> rel, ref |-> ref]

SeedDoc ==
    << Elem("link", "stylesheet", CssT),
       Elem("link", "icon", IconT),
       Elem("link", "stylesheet", CssD),
       Elem("script", "", JsD),
       Elem("img", "", ImgT),
       Elem("a", "", base_url),
       Elem("a", "", PageUrl(1)),
       Elem("a", "", PageUrl(ChainLen)),
       Elem("a", "", SubPageUrl),
       Elem("a", "", NearPageUrl),
       Elem("a", "", ExtPageUrl),
       Elem("a", "", PdfD) >>

ChainDoc(i) ==
    << Elem("link", "stylesheet", CssT),
       Elem("img", "", ImgT),
       Elem("a", "", base_url),
       Elem("a", "", PageUrl(i)) >>
    \o (IF i < ChainLen THEN << Elem("a", "", PageUrl(i + 1)) >> ELSE <<>>)

SubDoc ==
    << Elem("img", "", ImgT),
       Elem("a", "", base_url),
       Elem("a", "", ExtPageUrl) >>

\* the document the server returns for a page URL
Html(u) ==
    IF u = base_url THEN SeedDoc
    ELSE IF u = SubPageUrl THEN SubDoc
    ELSE IF \E i \in 1..ChainLen : u = PageUrl(i)
         THEN ChainDoc(CHOOSE i \in 1..ChainLen : u = PageUrl(i))
    ELSE <<>>

\* the target's stylesheet has a rule background-image: url(https://e.c/g.png)
BgT == Url(HostT, <<"/","g",".","p","n","g">>, <<>>, <<>>)

\* the background images the body of a stylesheet refers to, as
\* extract_background_images_from_css would find them
BackgroundsOf(u) == IF u = CssT THEN {BgT} ELSE {}

\* every URL that occurs in the site
AllUrls == {base_url, SubPageUrl, NearPageUrl, ExtPageUrl, CssT, CssD, JsD, ImgT, PdfD, IconT}
           \cup ChainPages

----------------------------------------------------------------------------
(* html_parser.rs *)

IndexHtml == <<"i","n","d","e","x",".","h","t","m","l">>

\* a sanitizer that lets '#' through
sanitize_char_keeps_fragment(c) ==
    IF c \in {"?", "&", "="} THEN "_"
    ELSE IF c = " " THEN "_"
    ELSE IF IsAsciiAlphanumeric(c) \/ c = "/" \/ c = "." \/ c = "-" \/ c = "#" THEN c
    ELSE "_"

\* HtmlParser::sanitize_path
sanitize_char(c) ==
    IF c \in {"?", "&", "=", "#"} THEN "_"
    ELSE IF c = " " THEN "_"
    ELSE IF IsAsciiAlphanumeric(c) \/ c = "/" \/ c = "." \/ c = "-" THEN c
    ELSE "_"

sanitize_path(path) == [i \in 1..Len(path) |-> sanitize_char(path[i])]

\* HtmlParser::url_to_local_path
\* url_to_local_path, lines 131-135: the leading '/' is removed
strip_leading_slash(path) == IF StartsWith(path, <<"/">>) THEN Tail(path) ELSE path

\* url_to_local_path, lines 137-145: the index file of a directory-like path
with_index_html(path) ==
    IF path = <<>> THEN IndexHtml
    ELSE IF EndsWith(path, <<"/">>) THEN path \o IndexHtml
    ELSE IF ~Contains(path, ".") THEN path \o <<"/">> \o IndexHtml
    ELSE path

\* a local path that leaves the query out
with_query_dropped(path, query) == path

\* url_to_local_path, lines 147-151: the query is appended
with_query(path, query) == IF query # <<>> THEN path \o <<"?">> \o query ELSE path

url_to_local_path(u) ==
    sanitize_path(with_query(with_index_html(strip_leading_slash(u.path)), u.query))

\* HtmlParser::url_to_local_path_string, for the absolute URLs the engine passes
url_to_local_path_string(u) == url_to_local_path(u)

\* HtmlParser::create_resource_link: original_url is the resolved absolute URL
create_resource_link(u, resource_type) ==
    [original_url |-> u, local_path |-> url_to_local_path(u), resource_type |-> resource_type]

RefsOf(doc, tag, rel, resource_type) ==
    LET sel == SelectSeq(doc, LAMBDA e : e.tag = tag /\ (rel = "" \/ e.rel = rel))
    IN [i \in 1..Len(sel) |-> create_resource_link(sel[i].ref, resource_type)]

\* HtmlParser::extract_resources: stylesheets, scripts, images, the
\* stylesheets a second time, then anchors
extract_resources(doc) ==
    RefsOf(doc, "link", "stylesheet", "CSS")
    \o RefsOf(doc, "script", "", "JavaScript")
    \o RefsOf(doc, "img", "", "Image")
    \o RefsOf(doc, "link", "stylesheet", "CSS")
    \o RefsOf(doc, "a", "", "Link")

----------------------------------------------------------------------------
(* file_manager.rs *)

\* the path FileManager walks to below base_dir:
\* url_path.split('/').filter(|s| !s.is_empty()) pushed one by one
FilePath(url_path) == JoinSegments(Segments(url_path))

\* Path::extension of the last component, <<>> if there is none
LastSegment(segs) == IF segs = <<>> THEN <<>> ELSE segs[Len(segs)]

\* the part of a file name after the dot at i, <<>> if i = 0
AfterDot(name, i) == IF i = 0 THEN <<>> ELSE SubSeq(name, i + 1, Len(name))

\* the extension of a file name: what follows its last dot, a leading dot aside
ExtensionOf(name) == AfterDot(name, MaxOrZero({i \in 2..Len(name) : name[i] = "."}))

PathExtension(path) == ExtensionOf(LastSegment(Segments(path)))

\* PathBuf::set_extension
\* the path without its extension old and the dot before it
Stem(path, old) ==
    IF old = <<>> /\ ~EndsWith(path, <<".">>) THEN path
    ELSE SubSeq(path, 1, Len(path) - Len(old) - 1)

SetExtension(path, ext) == Stem(path, PathExtension(path)) \o <<".">> \o ext

\* content types the server sends
MimeCss   == <<"t","e","x","t","/","c","s","s">>
MimeHtml  == <<"t","e","x","t","/","h","t","m","l">>
MimeJpeg  == <<"i","m","a","g","e","/","j","p","e","g">>
MimePdf   == <<"a","p","p","l","i","c","a","t","i","o","n","/","p","d","f">>
MimeWebp  == <<"i","m","a","g","e","/","w","e","b","p">>
MimeJs    == <<"t","e","x","t","/","j","a","v","a","s","c","r","i","p","t">>
MimeOctet == <<"a","p","p","l","i","c","a","t","i","o","n","/",
               "o","c","t","e","t","-","s","t","r","e","a","m">>

\* MimeGuess::from_path(mime).first(): the guess is made from the extension
\* of the content type read as a path, and is itself a content type
MimeOfExtension(ext) ==
    IF ext = <<"c","s","s">> THEN MimeCss
    ELSE IF ext = <<"h","t","m","l">> THEN MimeHtml
    ELSE IF ext = <<"j","p","g">> THEN MimeJpeg
    ELSE IF ext = <<"p","d","f">> THEN MimePdf
    ELSE IF ext = <<"w","e","b","p">> THEN MimeWebp
    ELSE <<>>

MimeGuessFirst(mime) == MimeOfExtension(PathExtension(mime))

\* FileManager::get_file_extension
\* guess is MimeGuess::from_path(mime).first(), <<>> for None
extension_after_guess(guess, url_path, looks_html) ==
    IF guess # <<>> THEN guess
    ELSE IF looks_html THEN <<"h","t","m","l">>
    ELSE PathExtension(url_path)

get_file_extension(url_path, mime, looks_html) ==
    extension_after_guess(MimeGuessFirst(mime), url_path, looks_html)

\* the path FileManager::save_file writes to
\* save_file, lines 44-46
with_extension(file_path, extension) ==
    IF extension # <<>> THEN SetExtension(file_path, extension) ELSE file_path

save_file_path(url_path, mime, looks_html) ==
    with_extension(FilePath(url_path), get_file_extension(url_path, mime, looks_html))

\* FileManager::file_exists: the path whose existence is tested
file_exists_path(url_path) == FilePath(url_path)

----------------------------------------------------------------------------
(* downloader.rs: predicates and helpers *)

\* WebsiteMirror::is_same_domain with the separating dot left out
is_same_domain_suffix(u) ==
    u.host = base_url.host \/ EndsWith(u.host, base_url.host)

\* WebsiteMirror::is_same_domain
is_same_domain(u) ==
    u.host = base_url.host \/ EndsWith(u.host, <<".">> \o base_url.host)

ResourceTypes == {"CSS", "JavaScript", "Image", "Link", "PDF", "Video", "Other"}

\* the match in should_process_resource_type
type_str(resource_type) ==
    CASE resource_type = "Image"      -> <<"i","m","a","g","e","s">>
      [] resource_type = "CSS"        -> <<"c","s","s">>
      [] resource_type = "JavaScript" -> <<"j","s">>
      [] resource_type = "Link"       -> <<"h","t","m","l">>
      [] resource_type = "PDF"        -> <<"p","d","f">>
      [] resource_type = "Video"      -> <<"v","i","d","e","o">>
      [] resource_type = "Other"      -> <<"o","t","h","e","r">>

\* should_process_resource_type comparing the entries as they are
should_process_resource_type_exact(only, resource_type) ==
    IF only.some
    THEN \E i \in 1..Len(only.list) : only.list[i] = type_str(resource_type)
    ELSE TRUE

\* a filter that lets every kind through
should_process_resource_type_all(only, resource_type) == TRUE

\* WebsiteMirror::should_process_resource_type
should_process_resource_type(only, resource_type) ==
    IF only.some
    THEN \E i \in 1..Len(only.list) : ToLowercase(only.list[i]) = type_str(resource_type)
    ELSE TRUE

\* should_download_resource applying the page rule to every kind
should_download_resource_same_site(u, resource_type) ==
    is_same_domain(u)

\* WebsiteMirror::should_download_resource
should_download_resource(u, resource_type) ==
    IF resource_type \in {"CSS", "JavaScript", "Image", "PDF", "Video"} THEN TRUE
    ELSE IF resource_type = "Link" THEN is_same_domain(u)
    ELSE TRUE

ImageExts == {ExtJpg, ExtJpeg, ExtPng, ExtGif, ExtWebp, ExtJPG, ExtJPEG, ExtPNG,
              <<".","G","I","F">>, ExtWEBP}
PdfExts   == {ExtPdf, ExtPDF}
VideoExts == {ExtMp4, <<".","a","v","i">>, <<".","m","o","v">>, <<".","w","m","v">>,
              <<".","f","l","v">>, <<".","w","e","b","m">>, <<".","m","k","v">>,
              <<".","m","4","v">>,
              ExtMP4, <<".","A","V","I">>, <<".","M","O","V">>, <<".","W","M","V">>,
              <<".","F","L","V">>, <<".","W","E","B","M">>, <<".","M","K","V">>,
              <<".","M","4","V">>}

EndsWithAny(s, exts) == \E e \in exts : EndsWith(s, e)

\* the sorted, deduplicated Vec of a set of URLs
RECURSIVE SortUrls(_)

\* m is the least URL of S
SortedFrom(m, S) == <<m>> \o SortUrls(S \ {m})

SortUrls(S) ==
    IF S = {} THEN <<>>
    ELSE SortedFrom(CHOOSE x \in S : \A y \in S \ {x} : LexLess(UrlString(x), UrlString(y)),
                    S)

\* WebsiteMirror::extract_additional_image_urls: href values ending in an
\* image, PDF or video extension and src values ending in an image or video
\* extension, kept when not of the target domain
extract_additional_image_urls(doc) ==
    LET href == {doc[i].ref : i \in {j \in 1..Len(doc) : doc[j].tag \in {"a", "link"}}}
        src  == {doc[i].ref : i \in {j \in 1..Len(doc) : doc[j].tag \in {"img", "script"}}}
        hits == {u \in href : EndsWithAny(UrlString(u), ImageExts \cup PdfExts \cup VideoExts)}
                \cup {u \in src : EndsWithAny(UrlString(u), ImageExts \cup VideoExts)}
    IN SortUrls({u \in hits : ~is_same_domain(u)})

\* the kind process_page gives an additional URL
additional_resource_type(u) ==
    IF EndsWithAny(UrlString(u), PdfExts) THEN "PDF"
    ELSE IF EndsWithAny(UrlString(u), VideoExts) THEN "Video"
    ELSE "Image"

\* the references of one kind
OfType(list, t) == SelectSeq(list, LAMBDA r : r.resource_type = t)

\* process_page, lines 687-702: the additional URLs as resource links
AdditionalLinks(additional) ==
    [i \in 1..Len(additional) |->
        create_resource_link(additional[i], additional_resource_type(additional[i]))]

\* process_page, lines 660-685: the references should_download_resource keeps
KeptResources(resources) ==
    SelectSeq(resources, LAMBDA r : should_download_resource(r.original_url, r.resource_type))

SortedInto(kept, extra) ==
    [css   |-> OfType(kept, "CSS"),
     js    |-> OfType(kept, "JavaScript"),
     image |-> OfType(kept, "Image") \o OfType(extra, "Image"),
     pdf   |-> OfType(kept, "PDF") \o OfType(extra, "PDF"),
     video |-> OfType(kept, "Video") \o OfType(extra, "Video"),
     link  |-> OfType(kept, "Link")]

\* process_page, lines 660-720: the lists the references are sorted into
ResourceLists(doc) ==
    SortedInto(KeptResources(extract_resources(doc)),
               AdditionalLinks(extract_additional_image_urls(doc)))

\* process_page downloading the images before the stylesheets
DownloadOrderImagesFirst(l) == l.image \o l.css \o l.js \o l.pdf \o l.video

\* process_page, lines 738-794: the order of the download_resource calls
DownloadOrder(l) == l.css \o l.js \o l.image \o l.pdf \o l.video

\* the conversion test of download_resource
IsConvertible(u) ==
    /\ EndsWithAny(UrlString(u), {ExtJpg, ExtJpeg, ExtPng, ExtJPG, ExtJPEG, ExtPNG})
    /\ ~EndsWithAny(UrlString(u), {ExtWebp, ExtWEBP})

\* download_resource, lines 955-960
webp_path(local_path) ==
    Replace(Replace(Replace(Replace(Replace(Replace(local_path,
        ExtJpg, ExtWebp), ExtJpeg, ExtWebp), ExtPng, ExtWebp),
        ExtJPG, ExtWebp), ExtJPEG, ExtWebp), ExtPNG, ExtWebp)

\* download_resource, lines 936-982: the path the resource is saved at
save_path(u, webp) ==
    IF webp /\ IsConvertible(u) THEN webp_path(url_to_local_path_string(u))
    ELSE url_to_local_path_string(u)

----------------------------------------------------------------------------
(* downloader.rs: the references of a saved page *)

\* Path::parent of a relative path, "" when it has none
ParentDir(path) == JoinSegments(SubSeq(Segments(path), 1, Len(Segments(path)) - 1))

DotDot == <<".", ".">>

\* pathdiff::diff_paths on the components of two relative paths: the common
\* leading components are dropped, one ".." is written for every component
\* left of the base, then what is left of the path
RECURSIVE DiffComponents(_, _)
DiffComponents(path, base) ==
    IF path # <<>> /\ base # <<>> /\ path[1] = base[1]
    THEN DiffComponents(Tail(path), Tail(base))
    ELSE [i \in 1..Len(base) |-> DotDot] \o path

diff_paths(path, base) == JoinSegments(DiffComponents(Segments(path), Segments(base)))

\* WebsiteMirror::calculate_relative_path
calculate_relative_path(from_path, to_path) == diff_paths(to_path, ParentDir(from_path))

\* get_local_path_for_resource_static, lines 163-177
final_local_path(u, webp) ==
    IF webp /\ IsConvertible(u) THEN webp_path(url_to_local_path_string(u))
    ELSE url_to_local_path_string(u)

\* WebsiteMirror::get_local_path_for_resource_static
get_local_path_for_resource_static(u, webp, current_html_path) ==
    calculate_relative_path(current_html_path, final_local_path(u, webp))

WebpMarker ==
    <<"_","_","_","W","E","B","P","_","M","A","R","K","E","R","_","_","_">>
WebpMarkerUpper ==
    <<"_","_","_","W","E","B","P","_","M","A","R","K","E","R","_",
      "U","P","P","E","R","_","_","_">>

\* perform_comprehensive_webp_replacement, lines 211-212
protect_webp(text) == Replace(Replace(text, ExtWebp, WebpMarker), ExtWEBP, WebpMarkerUpper)

\* perform_comprehensive_webp_replacement, lines 236-237
restore_webp(text) == Replace(Replace(text, WebpMarker, ExtWebp), WebpMarkerUpper, ExtWEBP)

\* perform_comprehensive_webp_replacement, lines 241-253, for the text
\* attr="value": the pattern for src attributes appends .webp to a value
\* that ends in a JPEG or PNG extension (the text has no url(...))
append_webp(value, attr) ==
    IF attr = "src" /\ EndsWithAny(value, {ExtJpg, ExtJpeg, ExtPng, ExtJPG, ExtJPEG, ExtPNG})
    THEN value \o ExtWebp
    ELSE value

\* WebsiteMirror::perform_comprehensive_webp_replacement on the value of an
\* attribute; the six replacements of lines 215-226 are those of webp_path
perform_comprehensive_webp_replacement(value, attr) ==
    append_webp(restore_webp(webp_path(protect_webp(value))), attr)

\* the attribute a tag carries its reference in
AttrOf(tag) == IF tag \in {"a", "link"} THEN "href" ELSE "src"

\* the HTML as downloaded: the attribute values of its elements
HtmlValues(doc) == [i \in 1..Len(doc) |-> UrlString(doc[i].ref)]

\* String::replace on the whole text
ReplaceAll(values, old, new) == [i \in 1..Len(values) |-> Replace(values[i], old, new)]

\* process_page, lines 799-832: one loop over a list of resources
RECURSIVE replace_references(_, _, _)
replace_references(values, list, webp) ==
    IF list = <<>> THEN values
    ELSE replace_references(
            ReplaceAll(values, UrlString(Head(list).original_url),
                       get_local_path_for_resource_static(Head(list).original_url, webp, <<>>)),
            Tail(list), webp)

\* process_page, lines 799-832: stylesheets, scripts, images, PDFs, videos
update_references(values, l, webp) ==
    replace_references(
        replace_references(
            replace_references(
                replace_references(
                    replace_references(values, l.css, FALSE),
                    l.js, FALSE),
                l.image, webp),
            l.pdf, FALSE),
        l.video, FALSE)

\* process_page, lines 835-837
webp_pass(values, doc, webp) ==
    IF webp
    THEN [i \in 1..Len(values) |->
             perform_comprehensive_webp_replacement(values[i], AttrOf(doc[i].tag))]
    ELSE values

\* Url::parse of https://host/path (the site has no queries or fragments)
HostEnd(rest) == MinOrZero({i \in 1..Len(rest) : rest[i] = "/"})
UrlOfRest(rest, i) ==
    IF i = 0 THEN Url(rest, <<"/">>, <<>>, <<>>)
    ELSE Url(SubSeq(rest, 1, i - 1), SubSeq(rest, i, Len(rest)), <<>>, <<>>)
ParseUrl(s) ==
    UrlOfRest(SubSeq(s, Len(Https) + 1, Len(s)),
              HostEnd(SubSeq(s, Len(Https) + 1, Len(s))))

\* the path of a URL up to and including its last '/'
DirOfPath(path) == SubSeq(path, 1, MaxOrZero({i \in 1..Len(path) : path[i] = "/"}))

\* HtmlParser::resolve_url with the page as base: an absolute URL is parsed,
\* a plain relative one is joined to the directory of the page
resolve_url(value, page) ==
    IF StartsWith(value, Https) THEN ParseUrl(value)
    ELSE Url(page.host, DirOfPath(page.path) \o value, <<>>, <<>>)

\* WebsiteMirror::is_resource_url
is_resource_url(value) ==
    EndsWithAny(value, ImageExts \cup PdfExts \cup VideoExts)

\* WebsiteMirror::ensure_webp_extension: the first extension the path ends
\* with is replaced wherever it occurs
ensure_webp_extension(local_path, webp) ==
    IF ~webp THEN local_path
    ELSE IF EndsWith(local_path, ExtJpg) THEN Replace(local_path, ExtJpg, ExtWebp)
    ELSE IF EndsWith(local_path, ExtJpeg) THEN Replace(local_path, ExtJpeg, ExtWebp)
    ELSE IF EndsWith(local_path, ExtPng) THEN Replace(local_path, ExtPng, ExtWebp)
    ELSE IF EndsWith(local_path, ExtGif) THEN Replace(local_path, ExtGif, ExtWebp)
    ELSE IF EndsWith(local_path, ExtJPG) THEN Replace(local_path, ExtJPG, ExtWebp)
    ELSE IF EndsWith(local_path, ExtJPEG) THEN Replace(local_path, ExtJPEG, ExtWebp)
    ELSE IF EndsWith(local_path, ExtPNG) THEN Replace(local_path, ExtPNG, ExtWebp)
    ELSE IF EndsWith(local_path, <<".","G","I","F">>) THEN Replace(local_path, <<".","G","I","F">>, ExtWebp)
    ELSE local_path

\* rewrite_external_resources_in_html, lines 401-417: what a matched value
\* is replaced with
external_new_url(old_url, local_path, webp) ==
    IF webp /\ is_resource_url(old_url)
       /\ EndsWithAny(old_url, {ExtJpg, ExtJpeg, ExtPng, ExtJPG, ExtJPEG, ExtPNG})
    THEN ensure_webp_extension(local_path, webp)
    ELSE local_path

\* the patterns of rewrite_external_resources_in_html for href and src
\* attributes, in their order (the documents have no inline styles and no
\* data- attributes)
ExternalPatterns ==
    << [attr |-> "href", exts |-> ImageExts],
       [attr |-> "src",  exts |-> ImageExts],
       [attr |-> "href", exts |-> PdfExts],
       [attr |-> "href", exts |-> VideoExts],
       [attr |-> "src",  exts |-> VideoExts] >>

\* the values a pattern captures, in the order of the text
PatternMatches(values, doc, pat) ==
    SelectSeq([i \in 1..Len(values) |->
                  IF /\ AttrOf(doc[i].tag) = pat.attr
                     /\ EndsWithAny(values[i], pat.exts)
                     /\ ~StartsWith(values[i], <<"d","a","t","a",":">>)
                     /\ ~StartsWith(values[i], <<"#">>)
                  THEN values[i] ELSE <<>>],
              LAMBDA v : v # <<>>)

\* rewrite_external_resources_in_html, lines 420-424
RECURSIVE apply_replacements(_, _, _, _)
apply_replacements(values, olds, page, webp) ==
    IF olds = <<>> THEN values
    ELSE apply_replacements(
            ReplaceAll(values, Head(olds),
                       external_new_url(Head(olds),
                           get_local_path_for_resource_static(
                               resolve_url(Head(olds), page), webp, <<>>),
                           webp)),
            Tail(olds), page, webp)

RECURSIVE rewrite_patterns(_, _, _, _, _)
rewrite_patterns(values, doc, page, webp, pats) ==
    IF pats = <<>> THEN values
    ELSE rewrite_patterns(
            apply_replacements(values, PatternMatches(values, doc, Head(pats)), page, webp),
            doc, page, webp, Tail(pats))

\* WebsiteMirror::rewrite_external_resources_in_html
rewrite_external_resources_in_html(values, doc, page, webp) ==
    rewrite_patterns(values, doc, page, webp, ExternalPatterns)

\* process_page, lines 796-842: the attribute values of the HTML that is saved
updated_html(doc, page, webp) ==
    rewrite_external_resources_in_html(
        webp_pass(update_references(HtmlValues(doc), ResourceLists(doc), webp), doc, webp),
        doc, page, webp)

----------------------------------------------------------------------------
(* The responses of the server *)

IsPageUrl(u) == u = base_url \/ u = SubPageUrl \/ u \in ChainPages

\* does the body start with <!DOCTYPE or <html: the pages, and the PDF link,
\* which the other host answers with an HTML page and status 200
LooksHtml(u) == IsPageUrl(u) \/ u = PdfD

\* the content-type header
ContentType(u) ==
    IF IsPageUrl(u) THEN MimeHtml
    ELSE IF EndsWith(u.path, <<".","c","s","s">>) THEN MimeCss
    ELSE IF EndsWith(u.path, ExtJpg) THEN MimeJpeg
    ELSE IF EndsWith(u.path, ExtPdf) THEN MimePdf
    ELSE IF EndsWith(u.path, <<".","j","s">>) THEN MimeJs
    ELSE MimeOctet

\* The functions of the engine tabulated over the URLs of the site; the
\* actions below read these tables
ResourceListsOf == [u \in AllUrls |-> ResourceLists(Html(u))]

DownloadQueueOf == [u \in AllUrls |-> DownloadOrder(ResourceListsOf[u])]

LinksOf ==
    [u \in AllUrls |->
        [i \in 1..Len(ResourceListsOf[u].link) |-> ResourceListsOf[u].link[i].original_url]]

LocalPathOf == [u \in AllUrls |-> url_to_local_path_string(u)]

SavePathOf == [u \in AllUrls |-> [webp \in BOOLEAN |-> save_path(u, webp)]]

\* download_resource, lines 946-969 and 984: the file a resource is written to
ResourceFileOf ==
    [u \in AllUrls |-> [webp \in BOOLEAN |->
        save_file_path(SavePathOf[u][webp],
                       IF webp /\ IsConvertible(u) THEN MimeWebp ELSE ContentType(u),
                       LooksHtml(u))]]

\* process_page, lines 845-846: the file a page is written to
PageFileOf == [u \in AllUrls |-> save_file_path(LocalPathOf[u], MimeHtml, LooksHtml(u))]

\* the attribute values of the saved HTML of every page
UpdatedHtmlOf == [u \in AllUrls |-> [webp \in BOOLEAN |-> updated_html(Html(u), u, webp)]]

\* the references of a page whose value in the saved HTML is not the original
\* URL: the URL, the value written for it, and the relative path from the
\* directory of the page's file to the path the resource is saved at
ReplacedOf ==
    [u \in AllUrls |-> [webp \in BOOLEAN |->
        {[url |-> Html(u)[i].ref,
          value |-> UpdatedHtmlOf[u][webp][i],
          relative |-> calculate_relative_path(PageFileOf[u], SavePathOf[Html(u)[i].ref][webp])] :
            i \in {k \in 1..Len(Html(u)) :
                     UpdatedHtmlOf[u][webp][k] # UrlString(Html(u)[k].ref)}}]]

\* download_resource, line 881: the path looked for on disk
ExistsPathOf == [u \in AllUrls |-> file_exists_path(UrlString(u))]

SameDomainOf == [u \in AllUrls |-> is_same_domain(u)]

EmptyMap == << >>

\* no pure function has been applied
NoProbe == [fn |-> "none"]

\* the persisted ledger and the files a previous run of the engine leaves
\* behind when it mirrored the stylesheet of the target host
PrevStore == [u \in {CssT} |-> SavePathOf[u][FALSE]]
PrevDisk  == [p \in {ResourceFileOf[CssT][FALSE]} |-> CssT]

\* <output_dir>/.download_store.json: absent, or holding a serialized store
\* readable: read_to_string succeeds; parses: the text is a serialized store;
\* downloads: the entries the text holds, or those a parser that gives up on
\* nothing would find in it
NoFile == [exists |-> FALSE, readable |-> FALSE, parses |-> FALSE, downloads |-> EmptyMap]
StoreFile(downloads) ==
    [exists |-> TRUE, readable |-> TRUE, parses |-> TRUE, downloads |-> downloads]

Put(f, k, v) == [x \in DOMAIN f \cup {k} |-> IF x = k THEN v ELSE f[x]]

\* PersistentStore::add_download that keeps the path a URL already has
add_download_keep_first(downloads, url, local_path) ==
    IF url \in DOMAIN downloads THEN downloads ELSE Put(downloads, url, local_path)

\* PersistentStore::add_download: HashMap::insert (the timestamp is not modelled)
add_download(downloads, url, local_path) == Put(downloads, url, local_path)

\* the call stack is never deeper than the seed, the pages behind it and one
\* activation that finds its URL visited
MaxStack == ChainLen + 3

Html4 == <<"h","t","m","l">>
ListEntries == {type_str(t) : t \in ResourceTypes}
               \cup {<<"C","S","S">>, <<"H","t","m","l">>, <<"f","o","n","t","s">>}

RECURSIVE ListsUpTo(_)
ListsUpTo(n) ==
    IF n = 0 THEN {<<>>}
    ELSE ListsUpTo(n - 1)
         \cup {Append(l, e) : l \in {x \in ListsUpTo(n - 1) : Len(x) = n - 1}, e \in ListEntries}

\* the allow-lists a run is started with
None == [some |-> FALSE, list |-> <<>>]
Some(list) == [some |-> TRUE, list |-> list]
RunFilters == {None, Some(<<Html4>>), Some(<<type_str("Image"), type_str("CSS")>>)}

----------------------------------------------------------------------------
(* The run: WebsiteMirror::new, mirror_website, process_page, download_resource *)

Init ==
    /\ max_depth \in 0..MaxDepthCfg
    /\ only_resources \in RunFilters
    /\ convert_to_webp \in BOOLEAN
    /\ clear_store \in BOOLEAN
    /\ \/ store_file = NoFile /\ disk = EmptyMap
       \/ store_file = StoreFile(PrevStore) /\ disk = PrevDisk
    /\ store_at_start = store_file
    /\ persistent_store = EmptyMap
    /\ visited_urls = {}
    /\ stack = <<>>
    /\ phase = "init"
    /\ result = "none"
    /\ faults = 0
    /\ last_error = "none"
    /\ trace = <<>>
    /\ probe = NoProbe

Config == <<max_depth, only_resources, convert_to_webp, clear_store, store_at_start>>

\* WebsiteMirror::new that never reads the persisted store
LoadStoreEmpty(clear, file) == EmptyMap

\* PersistentStore::load that takes whatever entries it finds in the file
load_lenient(file) == [ok |-> TRUE, store |-> file.downloads]

\* PersistentStore::load: Ok(new()) for no file, Err for a file that cannot
\* be read or parsed
load(file) ==
    IF file.exists
    THEN IF file.readable /\ file.parses
         THEN [ok |-> TRUE, store |-> file.downloads]
         ELSE [ok |-> FALSE, store |-> EmptyMap]
    ELSE [ok |-> TRUE, store |-> EmptyMap]

\* the match in WebsiteMirror::new, lines 535-546
store_or_new(loaded) == IF loaded.ok THEN loaded.store ELSE EmptyMap

\* WebsiteMirror::new, lines 531-547
LoadStore(clear, file) ==
    IF clear THEN EmptyMap ELSE store_or_new(load(file))

new ==
    /\ phase = "init"
    /\ persistent_store' = LoadStore(clear_store, store_file)
    /\ phase' = "ready"
    /\ last_error' = "none"
    /\ UNCHANGED <<Config, store_file, visited_urls, disk, stack, result, faults, trace,
                   probe>>

Frame(u, depth) == [url |-> u, depth |-> depth, pc |-> "claim", queue |-> <<>>, links |-> <<>>]

Top == stack[Len(stack)]

SetTop(f) == [stack EXCEPT ![Len(stack)] = f]

\* mirror_website, lines 593-605
mirror_website_start ==
    /\ phase = "ready"
    /\ IF ~only_resources.some \/ should_process_resource_type(only_resources, "Link")
       THEN /\ stack' = <<Frame(base_url, 0)>>
            /\ phase' = "running"
            /\ trace' = Append(trace, [ev |-> "visit", page |-> NoUrl, url |-> base_url,
                                       depth |-> 0])
       ELSE /\ phase' = "saving"
            /\ UNCHANGED <<stack, trace>>
    /\ last_error' = "none"
    /\ UNCHANGED <<Config, store_file, persistent_store, visited_urls, disk, result, faults,
                   probe>>

\* process_page passing a linked page's error on to its own caller
ReturnFromPropagate(res, tr, at) ==
    /\ trace' = Append(tr, [ev |-> "return", url |-> Top.url, res |-> res, at |-> at])
    /\ IF res = "Err"
       THEN stack' = <<>> /\ phase' = "done" /\ result' = "Err"
       ELSE /\ stack' = SubSeq(stack, 1, Len(stack) - 1)
            /\ IF Len(stack) = 1
               THEN phase' = "saving" /\ UNCHANGED result
               ELSE UNCHANGED <<phase, result>>

\* the innermost process_page returns res: a linked page's error is logged by
\* its caller (line 853), the seed's makes mirror_website return it (line 599);
\* at is the place in process_page it returns from
ReturnFrom(res, tr, at) ==
    /\ stack' = SubSeq(stack, 1, Len(stack) - 1)
    /\ trace' = Append(tr, [ev |-> "return", url |-> Top.url, res |-> res, at |-> at])
    /\ IF Len(stack) = 1
       THEN IF res = "Err"
            THEN phase' = "done" /\ result' = "Err"
            ELSE phase' = "saving" /\ UNCHANGED result
       ELSE UNCHANGED <<phase, result>>

\* the depth test of process_page letting one more level through
OverDepthLoose(depth) == max_depth > 0 /\ depth > max_depth + 1

\* process_page, line 634
OverDepth(depth) == max_depth > 0 /\ depth > max_depth

\* process_page forgetting to insert the URL
visited_insert_none(visited, u) == visited

\* a set that remembers only the page claimed last
visited_insert_last(visited, u) == {u}

\* a set that remembers the seed page only
visited_insert_seed_only(visited, u) == IF u = base_url THEN visited \cup {u} ELSE visited

\* process_page, line 630
visited_insert(visited, u) == visited \cup {u}

\* process_page, lines 623-637
process_page_claim ==
    /\ phase = "running"
    /\ Top.pc = "claim"
    /\ IF Top.url \in visited_urls
       THEN /\ ReturnFrom("Ok", trace, "visited")
            /\ UNCHANGED visited_urls
       ELSE /\ visited_urls' = visited_insert(visited_urls, Top.url)
            /\ IF OverDepth(Top.depth)
               THEN ReturnFrom("Ok", Append(trace, [ev |-> "depth_skip", url |-> Top.url,
                                                    depth |-> Top.depth]), "depth")
               ELSE /\ stack' = SetTop([Top EXCEPT !.pc = "fetch"])
                    /\ UNCHANGED <<phase, result, trace>>
    /\ last_error' = "none"
    /\ UNCHANGED <<Config, store_file, persistent_store, disk, faults, probe>>

CanFail == faults < MaxFaults

\* a failure: of a page's fetch, of a page's write, or inside download_resource
\* (which of its failures it was is in last_error)
Fault(by, u, at) == [ev |-> "fault", by |-> by, url |-> u, at |-> at]

\* process_page, lines 639-720: the page is fetched and its references sorted
process_page_fetch ==
    /\ phase = "running"
    /\ Top.pc = "fetch"
    /\ LET u == Top.url
           fetched == Append(trace, [ev |-> "fetch", by |-> "page", url |-> u,
                                     page |-> u, kind |-> "Link", depth |-> Top.depth])
       IN \/ \* client.get(url).send() fails, or response.text() fails
             /\ CanFail
             /\ ReturnFrom("Err", Append(fetched, Fault("page", u, "fetch")), "fetch")
             /\ last_error' \in {"send", "body"}
             /\ faults' = faults + 1
          \/ \* a status other than 200
             /\ CanFail
             /\ ReturnFrom("Ok", Append(fetched, Fault("page", u, "fetch")), "fetch")
             /\ last_error' = "status"
             /\ faults' = faults + 1
          \/ /\ stack' = SetTop([Top EXCEPT
                              !.pc = IF DownloadQueueOf[u] = <<>> THEN "save" ELSE "download",
                              !.queue = DownloadQueueOf[u],
                              !.links = LinksOf[u]])
             /\ trace' = fetched
             /\ last_error' = "none"
             /\ UNCHANGED <<phase, result, faults>>
    /\ UNCHANGED <<Config, store_file, persistent_store, visited_urls, disk, probe>>

\* a download_resource that records the URL although its fetch failed
download_resource_recording_failure ==
    /\ phase = "running"
    /\ Top.pc = "download"
    /\ CanFail
    /\ stack' = SetTop([Top EXCEPT !.queue = Tail(Top.queue),
                                   !.pc = IF Tail(Top.queue) = <<>> THEN "save"
                                          ELSE "download"])
    /\ trace' = Append(trace, Fault("resource", Head(Top.queue).original_url, "download"))
    /\ last_error' \in {"send", "status", "body"}
    /\ faults' = faults + 1
    /\ persistent_store' =
          add_download(persistent_store, Head(Top.queue).original_url,
                       LocalPathOf[Head(Top.queue).original_url])
    /\ UNCHANGED <<Config, store_file, visited_urls, disk, phase, result, probe>>

\* WebsiteMirror::download_resource, called for the next reference of the
\* page (process_page, lines 738-794); it returns Ok whatever happens
download_resource ==
    /\ phase = "running"
    /\ Top.pc = "download"
    /\ LET r == Head(Top.queue)
           u == r.original_url
           rest == Tail(Top.queue)
           called == Append(trace, [ev |-> "call", page |-> Top.url, url |-> u,
                                    kind |-> r.resource_type,
                                    cached |-> u \in DOMAIN persistent_store])
           fetched == Append(called, [ev |-> "fetch", by |-> "resource", url |-> u,
                                      page |-> Top.url, kind |-> r.resource_type,
                                      depth |-> Top.depth])
           path == SavePathOf[u][convert_to_webp]
           file == ResourceFileOf[u][convert_to_webp]
       IN /\ stack' = SetTop([Top EXCEPT !.queue = rest,
                                         !.pc = IF rest = <<>> THEN "save" ELSE "download"])
          /\ IF u \in DOMAIN persistent_store
             THEN /\ trace' = called
                  /\ last_error' = "none"
                  /\ UNCHANGED <<persistent_store, disk, faults>>
             ELSE IF ExistsPathOf[u] \in DOMAIN disk
             THEN /\ persistent_store' = add_download(persistent_store, u, LocalPathOf[u])
                  /\ trace' = called
                  /\ last_error' = "none"
                  /\ UNCHANGED <<disk, faults>>
             ELSE \/ \* send error, status other than 200, body read error
                     /\ CanFail
                     /\ trace' = Append(fetched, Fault("resource", u, "download"))
                     /\ last_error' \in {"send", "status", "body"}
                     /\ faults' = faults + 1
                     /\ UNCHANGED <<persistent_store, disk>>
                  \/ \* save_file fails
                     /\ CanFail
                     /\ trace' = Append(fetched, Fault("resource", u, "download"))
                     /\ last_error' = "write"
                     /\ faults' = faults + 1
                     /\ UNCHANGED <<persistent_store, disk>>
                  \/ /\ disk' = Put(disk, file, u)
                     /\ persistent_store' = add_download(persistent_store, u, path)
                     /\ trace' = Append(fetched, [ev |-> "write", by |-> "resource", url |-> u,
                                                  page |-> Top.url, kind |-> r.resource_type,
                                                  path |-> file])
                     /\ last_error' = "none"
                     /\ UNCHANGED faults
    /\ UNCHANGED <<Config, store_file, visited_urls, phase, result, probe>>

\* a process_page that records the page it saved in the ledger
process_page_save_recording ==
    /\ phase = "running"
    /\ Top.pc = "save"
    /\ disk' = Put(disk, PageFileOf[Top.url], Top.url)
    /\ persistent_store' = add_download(persistent_store, Top.url, LocalPathOf[Top.url])
    /\ trace' = Append(trace, [ev |-> "write", by |-> "page", url |-> Top.url,
                               page |-> Top.url, kind |-> "Link",
                               path |-> PageFileOf[Top.url]])
    /\ stack' = SetTop([Top EXCEPT !.pc = "links"])
    /\ last_error' = "none"
    /\ UNCHANGED <<Config, store_file, visited_urls, phase, result, faults, probe>>

\* process_page, lines 796-847: the rewritten HTML is saved
process_page_save ==
    /\ phase = "running"
    /\ Top.pc = "save"
    /\ LET u == Top.url
           file == PageFileOf[u]
       IN \/ /\ CanFail
             /\ ReturnFrom("Err", Append(trace, Fault("page", u, "write")), "write")
             /\ last_error' = "write"
             /\ faults' = faults + 1
             /\ UNCHANGED disk
          \/ /\ disk' = Put(disk, file, u)
             /\ trace' = Append(trace, [ev |-> "write", by |-> "page", url |-> u,
                                        page |-> u, kind |-> "Link", path |-> file])
             /\ stack' = SetTop([Top EXCEPT !.pc = "links"])
             /\ last_error' = "none"
             /\ UNCHANGED <<phase, result, faults>>
    /\ UNCHANGED <<Config, store_file, persistent_store, visited_urls, probe>>

\* process_page, lines 849-859: the next linked page
process_page_link ==
    /\ phase = "running"
    /\ Top.pc = "links"
    /\ Top.links # <<>>
    /\ LET l == Head(Top.links)
           parent == [Top EXCEPT !.links = Tail(Top.links)]
       IN IF SameDomainOf[l]
          THEN /\ Len(stack) < MaxStack
               /\ stack' = Append(SetTop(parent), Frame(l, Top.depth + 1))
               /\ trace' = Append(trace, [ev |-> "visit", page |-> Top.url, url |-> l,
                                          depth |-> Top.depth + 1])
          ELSE /\ stack' = SetTop(parent)
               /\ UNCHANGED trace
    /\ last_error' = "none"
    /\ UNCHANGED <<Config, store_file, persistent_store, visited_urls, disk, phase, result,
                   faults, probe>>

\* process_page, line 861
process_page_return ==
    /\ phase = "running"
    /\ Top.pc = "links"
    /\ Top.links = <<>>
    /\ ReturnFrom("Ok", trace, "end")
    /\ last_error' = "none"
    /\ UNCHANGED <<Config, store_file, persistent_store, visited_urls, disk, faults, probe>>

\* mirror_website, lines 607-618: the store is saved, a failure only warned about
save_store ==
    /\ phase = "saving"
    /\ \/ store_file' = StoreFile(persistent_store) /\ last_error' = "none" /\ UNCHANGED faults
       \/ CanFail /\ faults' = faults + 1 /\ last_error' = "write" /\ UNCHANGED store_file
    /\ phase' = "done"
    /\ result' = "Ok"
    /\ UNCHANGED <<Config, persistent_store, visited_urls, disk, stack, trace, probe>>

Next ==
    \/ new
    \/ mirror_website_start
    \/ process_page_claim
    \/ process_page_fetch
    \/ download_resource
    \/ process_page_save
    \/ process_page_link
    \/ process_page_return
    \/ save_store

Spec == Init /\ [][Next]_vars

\* the run under the scheduling of a single thread of control: a step that
\* can be taken is taken
FairSpec == Spec /\ WF_vars(Next)

----------------------------------------------------------------------------
(* should_process_resource_type applied to bounded allow-lists *)

FilterInit ==
    /\ max_depth = 0
    /\ only_resources \in {None} \cup {Some(l) : l \in ListsUpTo(MaxListLen)}
    /\ convert_to_webp = FALSE
    /\ clear_store = FALSE
    /\ store_file = NoFile
    /\ store_at_start = NoFile
    /\ disk = EmptyMap
    /\ persistent_store = EmptyMap
    /\ visited_urls = {}
    /\ stack = <<>>
    /\ phase = "probe"
    /\ result = "none"
    /\ faults = 0
    /\ last_error = "none"
    /\ trace = <<>>
    /\ probe = NoProbe

apply_should_process_resource_type ==
    /\ phase = "probe"
    /\ \E t \in ResourceTypes :
          probe' = [fn |-> "should_process_resource_type", kind |-> t,
                    out |-> should_process_resource_type(only_resources, t)]
    /\ UNCHANGED <<Config, store_file, persistent_store, visited_urls, disk, stack, phase,
                   result, faults, last_error, trace>>

FilterNext == apply_should_process_resource_type

FilterSpec == FilterInit /\ [][FilterNext]_vars

----------------------------------------------------------------------------
(* WebsiteMirror::new over the store files it can find *)

Ledgers ==
    {[u \in us |-> SavePathOf[u][FALSE]] : us \in SUBSET {CssT, CssD, ImgT}}

StoreFiles ==
    {NoFile} \cup {[exists |-> TRUE, readable |-> r, parses |-> p, downloads |-> d] :
                      r \in BOOLEAN, p \in BOOLEAN, d \in Ledgers}

NewInit ==
    /\ max_depth = 0
    /\ only_resources = None
    /\ convert_to_webp = FALSE
    /\ clear_store \in BOOLEAN
    /\ store_file \in StoreFiles
    /\ store_at_start = store_file
    /\ disk = EmptyMap
    /\ persistent_store = EmptyMap
    /\ visited_urls = {}
    /\ stack = <<>>
    /\ phase = "init"
    /\ result = "none"
    /\ faults = 0
    /\ last_error = "none"
    /\ trace = <<>>
    /\ probe = NoProbe

NewSpec == NewInit /\ [][new]_vars

----------------------------------------------------------------------------
(* The ledger on its own: PersistentStore under download_resource and under
   direct calls of add_download *)

LedgerUrls  == {CssT, CssD, ImgT}
LedgerPaths == {SavePathOf[u][w] : u \in LedgerUrls, w \in BOOLEAN}

LedgerInit ==
    /\ max_depth = 0
    /\ only_resources = None
    /\ convert_to_webp = FALSE
    /\ clear_store = FALSE
    /\ store_file = NoFile
    /\ store_at_start = NoFile
    /\ disk = EmptyMap
    /\ persistent_store = EmptyMap
    /\ visited_urls = {}
    /\ stack = <<>>
    /\ phase = "ledger"
    /\ result = "none"
    /\ faults = 0
    /\ last_error = "none"
    /\ trace = <<>>
    /\ probe = NoProbe

\* what download_resource does to the ledger, lines 870-888 and 992-996:
\* nothing when the URL has an entry, else one add_download when the file was
\* found or saved, under whatever path the call computed
download_resource_ledger ==
    /\ phase = "ledger"
    /\ \E u \in LedgerUrls, p \in LedgerPaths :
          /\ persistent_store' =
                IF u \in DOMAIN persistent_store
                THEN persistent_store
                ELSE add_download(persistent_store, u, p)
          /\ probe' = [fn |-> "download_resource", url |-> u, path |-> p,
                       store |-> persistent_store, out |-> persistent_store']
    /\ UNCHANGED <<Config, store_file, visited_urls, disk, stack, phase, result, faults,
                   last_error, trace>>

\* add_download called on the ledger as it is, the result only observed
apply_add_download ==
    /\ phase = "ledger"
    /\ \E u \in LedgerUrls, p \in LedgerPaths :
          probe' = [fn |-> "add_download", url |-> u, path |-> p,
                    store |-> persistent_store,
                    out |-> add_download(persistent_store, u, p)]
    /\ UNCHANGED <<Config, store_file, persistent_store, visited_urls, disk, stack, phase,
                   result, faults, last_error, trace>>

LedgerNext == download_resource_ledger \/ apply_add_download

LedgerSpec == LedgerInit /\ [][LedgerNext]_vars

----------------------------------------------------------------------------
(* The WebP translation of paths and of text, applied to bounded inputs *)

\* the URLs https://e.c<dir><stem><extension> the translation is applied to
ProbeDirs  == {<<"/">>, <<"/","d","/">>, <<"/","a",".","j","p","g","/">>}
ProbeStems == {<<"b">>, <<"b",".","p","n","g">>}
ProbeExts  == {ExtJpg, ExtJpeg, ExtPng, ExtJPG, ExtJPEG, ExtPNG,
               <<".","J","p","g">>, <<".","j","P","e","G">>, <<".","P","n","g">>,
               ExtWebp, ExtWEBP, ExtGif, <<".","c","s","s">>}
ProbeUrls  ==
    {Url(HostT, d \o n \o e, <<>>, <<>>) : d \in ProbeDirs, n \in ProbeStems, e \in ProbeExts}

\* the texts the comprehensive pass is applied to: a name followed by up to
\* MaxPieces extensions, name parts or separators
MaxPieces == 3
TextPieces == {ExtJpg, ExtJpeg, ExtPng, ExtJPG, ExtJPEG, ExtPNG, ExtWebp, ExtWEBP,
               ExtGif, <<"/">>, <<"b">>}

RECURSIVE TextsUpTo(_)
TextsUpTo(n) ==
    IF n = 0 THEN {<<"a">>}
    ELSE TextsUpTo(n - 1) \cup {t \o x : t \in TextsUpTo(n - 1), x \in TextPieces}

ProbeTexts == TextsUpTo(MaxPieces)

WebpInit ==
    /\ max_depth = 0
    /\ only_resources = None
    /\ convert_to_webp \in BOOLEAN
    /\ clear_store = FALSE
    /\ store_file = NoFile
    /\ store_at_start = NoFile
    /\ disk = EmptyMap
    /\ persistent_store = EmptyMap
    /\ visited_urls = {}
    /\ stack = <<>>
    /\ phase = "probe"
    /\ result = "none"
    /\ faults = 0
    /\ last_error = "none"
    /\ trace = <<>>
    /\ probe = NoProbe

\* process_page, lines 816-820: the local path that replaces an image reference
apply_get_local_path_for_resource_static ==
    /\ phase = "probe"
    /\ probe = NoProbe
    /\ \E u \in ProbeUrls :
          probe' = [fn |-> "get_local_path_for_resource_static", url |-> u,
                    out |-> get_local_path_for_resource_static(u, convert_to_webp, <<>>)]
    /\ UNCHANGED <<Config, store_file, persistent_store, visited_urls, disk, stack, phase,
                   result, faults, last_error, trace>>

\* download_resource, lines 936-982: the path a resource is saved at
\* WebsiteMirror::convert_to_webp_static: the bytes it returns, the original
\* ones when the image cannot be decoded
convert_to_webp_static(decodes) == IF decodes THEN "webp" ELSE "original"

\* download_resource, lines 946-969: the content that is written
final_content(u, webp, decodes) ==
    IF webp /\ IsConvertible(u) THEN convert_to_webp_static(decodes) ELSE "original"

\* download_resource, lines 944-996, for a body that was fetched: what is
\* written, where, and what the ledger records
apply_download_resource ==
    /\ phase = "probe"
    /\ probe = NoProbe
    /\ \E u \in ProbeUrls, decodes \in BOOLEAN :
          probe' = [fn |-> "download_resource", url |-> u, decodes |-> decodes,
                    content |-> final_content(u, convert_to_webp, decodes),
                    save_path |-> save_path(u, convert_to_webp),
                    recorded |-> add_download(EmptyMap, u, save_path(u, convert_to_webp))[u],
                    result |-> "Ok"]
    /\ UNCHANGED <<Config, store_file, persistent_store, visited_urls, disk, stack, phase,
                   result, faults, last_error, trace>>

apply_save_path ==
    /\ phase = "probe"
    /\ probe = NoProbe
    /\ \E u \in ProbeUrls :
          probe' = [fn |-> "save_path", url |-> u, out |-> save_path(u, convert_to_webp)]
    /\ UNCHANGED <<Config, store_file, persistent_store, visited_urls, disk, stack, phase,
                   result, faults, last_error, trace>>

\* process_page, lines 835-837, on the text attr="text", and the pass applied
\* to its own output
apply_perform_comprehensive_webp_replacement ==
    /\ phase = "probe"
    /\ probe = NoProbe
    /\ convert_to_webp
    /\ \E t \in ProbeTexts, a \in {"href", "src"} :
          \E out \in {perform_comprehensive_webp_replacement(t, a)} :
              probe' = [fn |-> "perform_comprehensive_webp_replacement", text |-> t,
                        attr |-> a, out |-> out,
                        again |-> perform_comprehensive_webp_replacement(out, a)]
    /\ UNCHANGED <<Config, store_file, persistent_store, visited_urls, disk, stack, phase,
                   result, faults, last_error, trace>>

WebpNext ==
    \/ apply_download_resource
    \/ apply_get_local_path_for_resource_static
    \/ apply_save_path
    \/ apply_perform_comprehensive_webp_replacement

WebpSpec == WebpInit /\ [][WebpNext]_vars

----------------------------------------------------------------------------
(* The functions that read and rewrite a page, applied to bounded documents *)

\* a stylesheet URL with a query: the target's stylesheet URL is a prefix of it
CssQ == Url(HostT, CssT.path, <<"v","=","2">>, <<>>)

\* the elements the documents are made of
ProbeElems ==
    {Elem("link", "stylesheet", CssT), Elem("link", "stylesheet", CssQ),
     Elem("link", "icon", IconT), Elem("script", "", JsD), Elem("img", "", ImgT),
     Elem("a", "", PageUrl(1)), Elem("a", "", ExtPageUrl)}

MaxElems == 3

RECURSIVE DocsUpTo(_)
DocsUpTo(n) ==
    IF n = 0 THEN {<<>>}
    ELSE DocsUpTo(n - 1)
         \cup {Append(d, e) : d \in {x \in DocsUpTo(n - 1) : Len(x) = n - 1}, e \in ProbeElems}

ProbeDocs == DocsUpTo(MaxElems)

\* references as they are written in an attribute
RawData       == <<"d","a","t","a",":",",","x">>
RawFragment   == <<"#","t">>
RawMailto     == <<"m","a","i","l","t","o",":","a","@","e",".","c">>
RawTel        == <<"t","e","l",":","1">>
RawJavascript == <<"j","a","v","a","s","c","r","i","p","t",":","f","(",")">>
RawRooted     == <<"/","a",".","c","s","s">>
RawRelative   == <<"b",".","j","p","g">>
RawAbsolute   == Https \o HostD \o <<"/","z">>
RawNoHost     == Https
RawSchemeless == <<"/","/">> \o HostD \o <<"/","z">>

IneligibleRefs == {RawData, RawFragment, RawMailto, RawTel, RawJavascript}
RawRefs ==
    IneligibleRefs \cup {RawRooted, RawRelative, RawAbsolute, RawNoHost, RawSchemeless}

\* the scheme a reference starts with: the letters before its first ':',
\* empty when it has none
SchemeAt(url, i) ==
    IF i > 1 /\ \A k \in 1..(i - 1) : IsLower(url[k]) THEN SubSeq(url, 1, i - 1) ELSE <<>>
SchemeOf(url) == SchemeAt(url, MinOrZero({i \in 1..Len(url) : url[i] = ":"}))

Resolved(scheme, host, path, frag, href) ==
    [ok |-> TRUE, scheme |-> scheme, host |-> host, path |-> path, query |-> <<>>,
     frag |-> frag, href |-> href]
Unresolved == [ok |-> FALSE]

\* Url::parse of an https URL: an empty host is an error
parse_https(url, u) ==
    IF u.host = <<>> THEN Unresolved
    ELSE Resolved(<<"h","t","t","p","s">>, u.host, u.path, <<>>, UrlString(u))

\* Url::join: a fragment is put on the base, a reference with a scheme of its
\* own (data, mailto, tel, javascript) is a URL without a host whose path is
\* what follows the scheme, a rooted path replaces the path of the base and
\* any other reference is joined to the directory of the base
join(base, url) ==
    IF url = <<>> THEN Resolved(<<"h","t","t","p","s">>, base.host, base.path, <<>>,
                                UrlString(base))
    ELSE IF url[1] = "#"
    THEN Resolved(<<"h","t","t","p","s">>, base.host, base.path, Tail(url),
                  UrlString(base) \o url)
    ELSE IF SchemeOf(url) # <<>>
    THEN Resolved(SchemeOf(url), <<>>, SubSeq(url, Len(SchemeOf(url)) + 2, Len(url)),
                  <<>>, url)
    ELSE IF url[1] = "/"
    THEN Resolved(<<"h","t","t","p","s">>, base.host, url, <<>>,
                  UrlString(Url(base.host, url, <<>>, <<>>)))
    ELSE Resolved(<<"h","t","t","p","s">>, base.host, DirOfPath(base.path) \o url, <<>>,
                  UrlString(Url(base.host, DirOfPath(base.path) \o url, <<>>, <<>>)))

\* HtmlParser::resolve_url as a Result, for a reference of any scheme
resolve_url_result(url, base) ==
    IF StartsWith(url, Https) THEN parse_https(url, ParseUrl(url))
    ELSE IF StartsWith(url, <<"/","/">>)
    THEN parse_https(Https \o SubSeq(url, 3, Len(url)),
                     ParseUrl(Https \o SubSeq(url, 3, Len(url))))
    ELSE join(base, url)

\* HtmlParser::create_resource_link as a Result
link_of(absolute_url, resource_type) ==
    IF ~absolute_url.ok THEN Unresolved
    ELSE [ok |-> TRUE, original_url |-> absolute_url.href,
          local_path |-> url_to_local_path(absolute_url), resource_type |-> resource_type]
create_resource_link_result(url, resource_type, base) ==
    link_of(resolve_url_result(url, base), resource_type)

\* the references extract_resources yields for one attribute value
extracted(link) == IF link.ok THEN <<link>> ELSE <<>>

\* process_page hands the reference to download_resource or to process_page
fetch_attempted(absolute_url, resource_type) ==
    absolute_url.ok /\ should_download_resource(absolute_url, resource_type)

\* the URLs the local path is computed for: a path of up to MaxChars
\* characters after the leading '/', with one of the queries
MaxChars == 3
PathChars == {"/", "p", ".", "~", "A", "7"}
Queries == {<<>>, <<"x","=","1">>, <<"a","&","b">>, <<"q","?","%">>}

\* the strings sanitize_path is applied to
TextChars == {"?", "&", "=", "#", " ", "a", "Z", "0", "/", ".", "-", "_", "%", ":", "é"}

RECURSIVE StringsUpTo(_, _)
StringsUpTo(chars, n) ==
    IF n = 0 THEN {<<>>}
    ELSE StringsUpTo(chars, n - 1)
         \cup {Append(t, c) : t \in {x \in StringsUpTo(chars, n - 1) : Len(x) = n - 1},
                              c \in chars}

\* paths with a '.' in a directory name
DottedPaths == {<<"/","p",".","7","/","A">>, <<"/","p",".","7","/","A",".","p">>,
                <<"/","p","/","A">>}

PathUrls ==
    {Url(HostT, <<"/">> \o t, q, <<>>) : t \in StringsUpTo(PathChars, MaxChars), q \in Queries}
        \cup {Url(HostT, t, q, <<>>) : t \in DottedPaths, q \in Queries}
PathTexts == StringsUpTo(TextChars, MaxChars)

\* attribute values with a media extension, as they are written in a page
MediaRelative  == <<"b",".","j","p","g">>
MediaNested    == <<"i","/","b",".","P","N","G">>
MediaRooted    == <<"/","b",".","j","p","g">>
MediaFragment  == <<"#","b",".","j","p","g">>
MediaData      == <<"d","a","t","a",":",",","b",".","p","n","g">>
MediaTarget    == Https \o HostT \o <<"/","b",".","j","p","g">>
MediaSubdomain == Https \o HostS \o <<"/","b",".","p","n","g">>
MediaOffSite   == Https \o HostD \o <<"/","f",".","p","d","f">>
MediaVideo     == Https \o HostD \o <<"/","v",".","m","p","4">>
NoMedia        == Https \o HostD \o <<"/","z">>

MediaValues == {MediaRelative, MediaNested, MediaRooted, MediaFragment, MediaData,
                MediaTarget, MediaSubdomain, MediaOffSite, MediaVideo, NoMedia}
MediaAttrs == [attr : {"href", "src"}, value : MediaValues]

\* Url::parse of a string on its own: a relative reference is an error
parse(url) ==
    IF StartsWith(url, Https) THEN parse_https(url, ParseUrl(url))
    ELSE IF SchemeOf(url) # <<>>
    THEN Resolved(SchemeOf(url), <<>>, SubSeq(url, Len(SchemeOf(url)) + 2, Len(url)),
                  <<>>, url)
    ELSE Unresolved

\* WebsiteMirror::is_same_domain of a string: false when it does not parse
\* or has no host
host_is_same_domain(parsed) ==
    /\ parsed.ok
    /\ parsed.host # <<>>
    /\ (parsed.host = base_url.host \/ EndsWith(parsed.host, <<".">> \o base_url.host))
is_same_domain_str(url) == host_is_same_domain(parse(url))

\* extract_additional_image_urls, lines 470-485: the patterns
additional_match(a) ==
    \/ a.attr = "href" /\ EndsWithAny(a.value, ImageExts \cup PdfExts \cup VideoExts)
    \/ a.attr = "src" /\ EndsWithAny(a.value, ImageExts \cup VideoExts)

\* extract_additional_image_urls, lines 493-497: the values passed over
additional_skip(value) ==
    \/ StartsWith(value, <<"d","a","t","a",":">>)
    \/ StartsWith(value, <<"#">>)
    \/ StartsWith(value, <<"/">>)

\* WebsiteMirror::extract_additional_image_urls on the attributes of a page,
\* as the set its sorted, deduplicated result holds
extract_additional_image_urls_of(attrs) ==
    {a.value : a \in {x \in attrs : /\ additional_match(x)
                                    /\ ~additional_skip(x.value)
                                    /\ ~is_same_domain_str(x.value)}}

PageInit ==
    /\ max_depth = 0
    /\ only_resources = None
    /\ convert_to_webp \in BOOLEAN
    /\ clear_store = FALSE
    /\ store_file = NoFile
    /\ store_at_start = NoFile
    /\ disk = EmptyMap
    /\ persistent_store = EmptyMap
    /\ visited_urls = {}
    /\ stack = <<>>
    /\ phase = "probe"
    /\ result = "none"
    /\ faults = 0
    /\ last_error = "none"
    /\ trace = <<>>
    /\ probe = NoProbe

\* process_page, line 654
apply_extract_resources ==
    /\ phase = "probe"
    /\ probe = NoProbe
    /\ \E d \in ProbeDocs :
          probe' = [fn |-> "extract_resources", doc |-> d, out |-> extract_resources(d)]
    /\ UNCHANGED <<Config, store_file, persistent_store, visited_urls, disk, stack, phase,
                   result, faults, last_error, trace>>

\* process_page, lines 796-842, for the page at the base URL
apply_updated_html ==
    /\ phase = "probe"
    /\ probe = NoProbe
    /\ \E d \in ProbeDocs :
          probe' = [fn |-> "updated_html", doc |-> d,
                    out |-> updated_html(d, base_url, convert_to_webp)]
    /\ UNCHANGED <<Config, store_file, persistent_store, visited_urls, disk, stack, phase,
                   result, faults, last_error, trace>>

\* extract_resources, lines 41-99, and process_page, lines 663-672, for one
\* attribute value
apply_create_resource_link ==
    /\ phase = "probe"
    /\ probe = NoProbe
    /\ \E url \in RawRefs, t \in {"CSS", "JavaScript", "Image", "Link"} :
          probe' = [fn |-> "create_resource_link", url |-> url, resource_type |-> t,
                    resolved |-> resolve_url_result(url, base_url),
                    out |-> create_resource_link_result(url, t, base_url),
                    extracted |-> extracted(create_resource_link_result(url, t, base_url)),
                    fetch |-> fetch_attempted(resolve_url_result(url, base_url), t)]
    /\ UNCHANGED <<Config, store_file, persistent_store, visited_urls, disk, stack, phase,
                   result, faults, last_error, trace>>

\* create_resource_link, line 105
apply_url_to_local_path ==
    /\ phase = "probe"
    /\ probe = NoProbe
    /\ \E u \in PathUrls :
          probe' = [fn |-> "url_to_local_path", url |-> u, out |-> url_to_local_path(u)]
    /\ UNCHANGED <<Config, store_file, persistent_store, visited_urls, disk, stack, phase,
                   result, faults, last_error, trace>>

\* HtmlParser::sanitize_path is public
apply_sanitize_path ==
    /\ phase = "probe"
    /\ probe = NoProbe
    /\ \E t \in PathTexts :
          probe' = [fn |-> "sanitize_path", text |-> t, out |-> sanitize_path(t)]
    /\ UNCHANGED <<Config, store_file, persistent_store, visited_urls, disk, stack, phase,
                   result, faults, last_error, trace>>

\* process_page, line 671
apply_should_download_resource ==
    /\ phase = "probe"
    /\ probe = NoProbe
    /\ \E h \in {HostT, HostS, HostX, HostD}, t \in ResourceTypes :
          probe' = [fn |-> "should_download_resource", kind |-> t,
                    url |-> Url(h, <<"/","z">>, <<>>, <<>>),
                    out |-> should_download_resource(Url(h, <<"/","z">>, <<>>, <<>>), t)]
    /\ UNCHANGED <<Config, store_file, persistent_store, visited_urls, disk, stack, phase,
                   result, faults, last_error, trace>>

\* process_page, line 658, for a page with one or two attributes
apply_extract_additional_image_urls ==
    /\ phase = "probe"
    /\ probe = NoProbe
    /\ \E a, b \in MediaAttrs :
          probe' = [fn |-> "extract_additional_image_urls", attrs |-> {a, b},
                    out |-> extract_additional_image_urls_of({a, b})]
    /\ UNCHANGED <<Config, store_file, persistent_store, visited_urls, disk, stack, phase,
                   result, faults, last_error, trace>>

\* process_page, lines 844-846, and download_resource, lines 936-984, for
\* two URLs of one path: the local paths and the files written
apply_save_file ==
    /\ phase = "probe"
    /\ probe = NoProbe
    /\ \E path \in {<<"/","p">>, <<"/","d","/">>, <<"/","a",".","c","s","s">>},
          q1 \in Queries, q2 \in Queries, mime \in {MimeHtml, MimeCss}, looks_html \in BOOLEAN :
          /\ q1 # q2
          /\ probe' = [fn |-> "save_file", mime |-> mime, looks_html |-> looks_html,
                       first |-> Url(HostT, path, q1, <<>>),
                       second |-> Url(HostT, path, q2, <<>>),
                       first_path |-> url_to_local_path_string(Url(HostT, path, q1, <<>>)),
                       second_path |-> url_to_local_path_string(Url(HostT, path, q2, <<>>)),
                       first_file |->
                           save_file_path(url_to_local_path_string(Url(HostT, path, q1, <<>>)),
                                          mime, looks_html),
                       second_file |->
                           save_file_path(url_to_local_path_string(Url(HostT, path, q2, <<>>)),
                                          mime, looks_html)]
    /\ UNCHANGED <<Config, store_file, persistent_store, visited_urls, disk, stack, phase,
                   result, faults, last_error, trace>>

PageNext ==
    \/ apply_save_file
    \/ apply_extract_additional_image_urls
    \/ apply_should_download_resource
    \/ apply_url_to_local_path
    \/ apply_sanitize_path
    \/ apply_extract_resources
    \/ apply_create_resource_link
    \/ apply_updated_html

PageSpec == PageInit /\ [][PageNext]_vars

----------------------------------------------------------------------------
(* The download queue: DownloadTasks in a BinaryHeap *)

Priorities == {"Critical", "High", "Normal"}

\* impl Ord for DownloadPriority
priority_cmp(self, other) ==
    IF self = "Critical" /\ other = "Critical" THEN "Equal"
    ELSE IF self = "Critical" THEN "Less"
    ELSE IF self = "High" /\ other = "Critical" THEN "Greater"
    ELSE IF self = "High" /\ other = "High" THEN "Equal"
    ELSE IF self = "High" THEN "Less"
    ELSE IF self = "Normal" /\ other = "Normal" THEN "Equal"
    ELSE "Greater"

\* usize::cmp
usize_cmp(a, b) == IF a < b THEN "Less" ELSE IF a = b THEN "Equal" ELSE "Greater"

\* impl Ord for DownloadTask
task_cmp(self, other) ==
    IF priority_cmp(self.priority, other.priority) # "Equal"
    THEN priority_cmp(self.priority, other.priority)
    ELSE usize_cmp(other.depth, self.depth)

MaxTasks == 3
MaxTaskDepth == 1
DownloadTasks == [priority : Priorities, depth : 0..MaxTaskDepth]

\* BinaryHeap::pop returns a greatest element
IsGreatest(heap, i) == \A k \in 1..Len(heap) : task_cmp(heap[k], heap[i]) # "Greater"
Without(heap, i) == SubSeq(heap, 1, i - 1) \o SubSeq(heap, i + 1, Len(heap))

QueueInit == PageInit /\ ~convert_to_webp

\* BinaryHeap::push
push ==
    /\ phase = "probe"
    /\ probe.fn \in {"none", "BinaryHeap"}
    /\ \E task \in DownloadTasks :
          \/ /\ probe = NoProbe
             /\ probe' = [fn |-> "BinaryHeap", heap |-> <<task>>, popped |-> <<>>]
          \/ /\ probe # NoProbe
             /\ probe.popped = <<>>
             /\ Len(probe.heap) < MaxTasks
             /\ probe' = [probe EXCEPT !.heap = Append(@, task)]
    /\ UNCHANGED <<Config, store_file, persistent_store, visited_urls, disk, stack, phase,
                   result, faults, last_error, trace>>

\* BinaryHeap::pop
pop ==
    /\ phase = "probe"
    /\ probe.fn = "BinaryHeap"
    /\ \E i \in 1..Len(probe.heap) :
          /\ IsGreatest(probe.heap, i)
          /\ probe' = [probe EXCEPT !.heap = Without(@, i),
                                    !.popped = Append(@, probe.heap[i])]
    /\ UNCHANGED <<Config, store_file, persistent_store, visited_urls, disk, stack, phase,
                   result, faults, last_error, trace>>

QueueNext ==
    \/ push
    \/ pop

QueueSpec == QueueInit /\ [][QueueNext]_vars

----------------------------------------------------------------------------
(* A run over the output of an earlier run whose store also names the seed page *)

RerunStore ==
    [u \in {CssT, base_url} |-> IF u = CssT THEN SavePathOf[u][FALSE] ELSE LocalPathOf[u]]
RerunDisk ==
    [p \in {ResourceFileOf[CssT][FALSE], PageFileOf[base_url]} |->
        IF p = PageFileOf[base_url] THEN base_url ELSE CssT]

RerunInit ==
    /\ max_depth = 1
    /\ only_resources = None
    /\ convert_to_webp = FALSE
    /\ clear_store = FALSE
    /\ store_file = StoreFile(RerunStore)
    /\ disk = RerunDisk
    /\ store_at_start = store_file
    /\ persistent_store = EmptyMap
    /\ visited_urls = {}
    /\ stack = <<>>
    /\ phase = "init"
    /\ result = "none"
    /\ faults = 0
    /\ last_error = "none"
    /\ trace = <<>>
    /\ probe = NoProbe

RerunSpec == RerunInit /\ [][Next]_vars

----------------------------------------------------------------------------
(* The claim of a page by process_page calls that interleave *)

MaxCallers == 3
Callers == 1..MaxCallers
ClaimUrls == {base_url, PageUrl(1)}

\* the holders of the mutex of visited_urls when no caller holds it
Unlocked == {}

\* a mutex that is handed out while it is held
can_lock_held(holder) == TRUE

\* Mutex::lock returns when no one holds the mutex
can_lock(holder) == holder = Unlocked

ClaimInit ==
    /\ max_depth = 0
    /\ only_resources = None
    /\ convert_to_webp = FALSE
    /\ clear_store = FALSE
    /\ store_file = NoFile
    /\ store_at_start = NoFile
    /\ disk = EmptyMap
    /\ persistent_store = EmptyMap
    /\ visited_urls = {}
    /\ stack = <<>>
    /\ phase = "claim"
    /\ result = "none"
    /\ faults = 0
    /\ last_error = "none"
    /\ trace = <<>>
    /\ \E url \in [Callers -> ClaimUrls] :
          probe = [fn |-> "process_page", url |-> url, pc |-> [c \in Callers |-> "called"],
                   holder |-> Unlocked]

\* process_page, line 625: visited_urls.lock()
claim_lock ==
    /\ phase = "claim"
    /\ \E c \in Callers :
          /\ probe.pc[c] = "called"
          /\ can_lock(probe.holder)
          /\ probe' = [probe EXCEPT !.pc[c] = "locked", !.holder = {c}]
    /\ UNCHANGED <<Config, store_file, persistent_store, visited_urls, disk, stack, phase,
                   result, faults, last_error, trace>>

\* process_page, lines 626-629: visited.contains(url); the guard is dropped
\* when the call returns
claim_contains ==
    /\ phase = "claim"
    /\ \E c \in Callers :
          /\ probe.pc[c] = "locked"
          /\ IF probe.url[c] \in visited_urls
             THEN probe' = [probe EXCEPT !.pc[c] = "returned", !.holder = Unlocked]
             ELSE probe' = [probe EXCEPT !.pc[c] = "insert"]
    /\ UNCHANGED <<Config, store_file, persistent_store, visited_urls, disk, stack, phase,
                   result, faults, last_error, trace>>

\* process_page, lines 630-631: visited.insert(url); the guard is dropped at
\* the end of the block and the call goes on to the depth test and the fetch
claim_insert ==
    /\ phase = "claim"
    /\ \E c \in Callers :
          /\ probe.pc[c] = "insert"
          /\ visited_urls' = visited_insert(visited_urls, probe.url[c])
          /\ probe' = [probe EXCEPT !.pc[c] = "proceeds", !.holder = Unlocked]
    /\ UNCHANGED <<Config, store_file, persistent_store, disk, stack, phase, result, faults,
                   last_error, trace>>

ClaimNext ==
    \/ claim_lock
    \/ claim_contains
    \/ claim_insert

ClaimSpec == ClaimInit /\ [][ClaimNext]_vars

----------------------------------------------------------------------------
(* Reading the history of a run *)

Idx == 1..Len(trace)

IsFetch(i)     == trace[i].ev = "fetch"
IsPageFetch(i) == trace[i].ev = "fetch" /\ trace[i].by = "page"
IsResFetch(i)  == trace[i].ev = "fetch" /\ trace[i].by = "resource"
IsCall(i)      == trace[i].ev = "call"
IsPageWrite(i) == trace[i].ev = "write" /\ trace[i].by = "page"
IsVisit(i)     == trace[i].ev = "visit"
IsFault(i)     == trace[i].ev = "fault"

\* how many times the HTTP fetch was invoked for u
FetchCount(u) == Cardinality({i \in Idx : IsFetch(i) /\ trace[i].url = u})

----------------------------------------------------------------------------
(* Claims *)

\* C1: during one run the HTTP fetch is invoked at most once for every
\* distinct URL, however often it is referenced and however the earlier
\* attempt ended.
C1_AtMostOnceFetch == \A u \in AllUrls : FetchCount(u) <= 1

\* C2: a run started without the clear flag from a persisted ledger that
\* holds a resource URL makes no fetch for that URL in download_resource,
\* however many pages reference it.
C2_LedgerHitNoFetch ==
    (phase # "init" /\ ~clear_store /\ store_at_start.exists) =>
        \A u \in DOMAIN store_at_start.downloads :
            \A i \in Idx : ~(IsResFetch(i) /\ trace[i].url = u)

\* two pages passed the ledgered stylesheet to download_resource
C2_Witness ==
    /\ ~clear_store
    /\ store_at_start.exists
    /\ CssT \in DOMAIN store_at_start.downloads
    /\ \E i, j \in Idx :
          /\ IsCall(i) /\ trace[i].url = CssT /\ trace[i].page = base_url
          /\ IsCall(j) /\ trace[j].url = CssT /\ trace[j].page = PageUrl(1)

\* the hosts of the model that are the target host or a subdomain of it
SameSiteHosts == {HostT, HostS}

\* C3: a page is fetched, and recursed into, only if its host is the seed's
\* host or a subdomain of it; a link to any other host is never fetched as a
\* page.
C3_PagesSameSite ==
    \A i \in Idx : (IsPageFetch(i) \/ IsVisit(i)) => trace[i].url.host \in SameSiteHosts

\* the seed went through all its links: the subdomain page was fetched, the
\* pages of the other hosts were passed over
C3_Witness ==
    /\ phase = "saving"
    /\ \E i \in Idx : IsPageFetch(i) /\ trace[i].url = SubPageUrl
    /\ \E i \in Idx : IsPageWrite(i) /\ trace[i].url = base_url

\* the frames of the pages that are past their download_resource calls
PastDownloads == {i \in 1..Len(stack) : stack[i].pc \in {"save", "links"}}

\* the pages whose process_page has returned after the page was fetched
Returned ==
    {trace[i].url : i \in {j \in Idx : trace[j].ev = "return" /\ trace[j].at \in {"write", "end"}}}

\* the pages whose process_page went through all the links of the page
Finished ==
    {trace[i].url : i \in {j \in Idx : trace[j].ev = "return" /\ trace[j].at = "end"}}

\* the pages whose fetch gave a document
Parsed ==
    {trace[i].url : i \in {j \in Idx :
        /\ IsPageFetch(j)
        /\ ~(j < Len(trace) /\ IsFault(j + 1) /\ trace[j + 1].at = "fetch"
             /\ trace[j + 1].by = "page")}}

\* the stylesheet, script and image elements of a document, and its links to
\* the PDF of the other host
AssetRefs(doc) ==
    {doc[i].ref : i \in {j \in 1..Len(doc) :
        \/ doc[j].tag \in {"img", "script"}
        \/ doc[j].tag = "link" /\ doc[j].rel = "stylesheet"
        \/ doc[j].tag = "a" /\ doc[j].ref = PdfD}}

\* the URLs the server has a document for, with the assets of each
Pages == {u \in AllUrls : Html(u) # <<>>}

AssetRefsOf == [p \in Pages |-> AssetRefs(Html(p))]

\* the (page, URL) pairs of the calls of download_resource
Called == {<<trace[i].page, trace[i].url>> : i \in {j \in Idx : IsCall(j)}}

\* the pages that are through with their downloads
DownloadsOver == Parsed \cap (Returned \cup {stack[i].url : i \in PastDownloads})

\* every asset of each of the pages was passed to download_resource by the page
AllAssetsCalled(pages, called) ==
    \A p \in pages \cap Pages : \A a \in AssetRefsOf[p] : <<p, a>> \in called

FetchedAt == {<<trace[i].url, trace[i].depth>> : i \in {j \in Idx : IsPageFetch(j)}}

\* the (page, depth) pairs of the calls of process_page
VisitedAt == {<<trace[i].url, trace[i].depth>> : i \in {j \in Idx : IsVisit(j)}}

\* every call of process_page is the seed's at depth 0 or is made by a page
\* fetched one level above
DepthsFollow(fetched) ==
    \A i \in Idx : IsVisit(i) =>
        IF trace[i].page = NoUrl
        THEN trace[i].url = base_url /\ trace[i].depth = 0
        ELSE <<trace[i].page, trace[i].depth - 1>> \in fetched

\* every page is fetched at the depth process_page was called with, which the
\* limit allows
DepthsAllowed(visited) ==
    \A i \in Idx : IsPageFetch(i) =>
        /\ <<trace[i].url, trace[i].depth>> \in visited
        /\ max_depth # 0 => trace[i].depth <= max_depth

\* C5: the seed is processed at depth 0 and each linked page at its
\* parent's depth + 1; when max_depth is not 0 no page is fetched at a depth
\* greater than max_depth; when max_depth is 0 no page is skipped because of
\* its depth.
C5_DepthLimit ==
    /\ DepthsFollow(FetchedAt)
    /\ DepthsAllowed(VisitedAt)
    /\ max_depth = 0 => \A i \in Idx : trace[i].ev # "depth_skip"

\* with max_depth 1 a page was fetched at depth 1 and another page, reached
\* at depth 2, was skipped
C5_Witness ==
    /\ max_depth = 1
    /\ \E i \in Idx : IsPageFetch(i) /\ trace[i].depth = 1
    /\ \E i \in Idx : trace[i].ev = "depth_skip" /\ trace[i].depth = 2

\* C6: on every finite same-host link graph, cycles and self-links included,
\* and for every max_depth, 0 included, a run terminates when every fetch
\* returns.
C6_Terminates == <>(phase = "done")

\* a run over the cyclic site with unlimited depth came to its end, having
\* met the seed and a chain page again
C6_Witness ==
    /\ phase = "done"
    /\ max_depth = 0
    /\ Cardinality({i \in Idx : IsVisit(i) /\ trace[i].url = base_url}) > 2
    /\ Cardinality({i \in Idx : IsVisit(i) /\ trace[i].url = PageUrl(1)}) > 1
    /\ \A u \in AllUrls : Cardinality({i \in Idx : IsPageFetch(i) /\ trace[i].url = u}) <= 1

\* the links of a document to pages of the target host and its subdomain
SameSiteLinks(doc) ==
    {doc[i].ref : i \in {j \in 1..Len(doc) :
        doc[j].tag = "a" /\ doc[j].ref.host \in SameSiteHosts}}

SameSiteLinksOf == [p \in Pages |-> SameSiteLinks(Html(p))]

\* the (page, URL) pairs of the calls of process_page for a link
Visited == {<<trace[i].page, trace[i].url>> : i \in {j \in Idx : IsVisit(j)}}

\* process_page was called for every same-site link of each of the pages
AllLinksVisited(pages, visited) ==
    \A p \in pages \cap Pages : \A l \in SameSiteLinksOf[p] : <<p, l>> \in visited

\* C7: a transport error, a status other than success, a body-read error or
\* a write error on a resource, or on a page other than the seed, never
\* makes mirror_website return an error and never keeps the remaining
\* resources and the sibling pages from being processed.
C7_ErrorsDoNotAbort ==
    /\ result = "Err" =>
          \E i \in Idx : IsFault(i) /\ trace[i].by = "page" /\ trace[i].url = base_url
    /\ AllAssetsCalled(DownloadsOver, Called)
    /\ AllLinksVisited(Finished, Visited)

\* a run returned Ok although a resource of the seed and the first linked
\* page failed; the resources after the failed one were fetched and the
\* pages after the failed one were visited
C7_Witness ==
    /\ phase = "done"
    /\ result = "Ok"
    /\ \E i, j \in Idx :
          /\ i < j
          /\ IsFault(i) /\ trace[i].by = "resource"
          /\ IsResFetch(i - 1) /\ trace[i - 1].page = base_url
          /\ IsResFetch(j) /\ trace[j].page = base_url
    /\ \E i, j \in Idx :
          /\ i < j
          /\ IsFault(i) /\ trace[i].by = "page" /\ trace[i].url = PageUrl(1)
          /\ IsPageFetch(j) /\ trace[j].url = SubPageUrl

\* the place of an event in the processing of its page: 1 stylesheets and
\* scripts, 2 images, PDFs and videos, 3 the page's own HTML, 4 its links
PhaseOf(e) ==
    IF e.ev \in {"fetch", "write"} /\ e.by = "resource"
    THEN IF e.kind \in {"CSS", "JavaScript"} THEN 1 ELSE 2
    ELSE IF e.ev = "write" /\ e.by = "page" THEN 3
    ELSE 4

InPhases(e) ==
    \/ e.ev \in {"fetch", "write"} /\ e.by = "resource"
    \/ e.ev = "write" /\ e.by = "page"
    \/ e.ev = "visit"

\* the fetches and writes page p made for its resources, the write of its
\* HTML and the visits of its links, in the order they happened
EventsOf(p) == SelectSeq(trace, LAMBDA e : InPhases(e) /\ e.page = p)

\* the pages that were fetched
Fetched == {trace[i].url : i \in {j \in Idx : IsPageFetch(j)}}

\* no event of the sequence belongs to an earlier phase than the one before it
PhasesInOrder(events) ==
    \A k \in 2..Len(events) : PhaseOf(events[k - 1]) <= PhaseOf(events[k])

\* C8: for every fetched page, all its stylesheet and script fetches come
\* before any of its image, PDF or video fetches, all its resource fetches
\* and writes come before its own HTML is written, and its HTML is written
\* before any of its linked pages is visited.
C8_PhaseOrder == \A p \in Fetched : PhasesInOrder(EventsOf(p))

\* the seed fetched a stylesheet, a script and an image, wrote its HTML and
\* went on to a linked page
C8_Witness ==
    /\ \E i \in Idx : IsResFetch(i) /\ trace[i].page = base_url /\ trace[i].kind = "CSS"
    /\ \E i \in Idx : IsResFetch(i) /\ trace[i].page = base_url /\ trace[i].kind = "JavaScript"
    /\ \E i \in Idx : IsResFetch(i) /\ trace[i].page = base_url /\ trace[i].kind = "Image"
    /\ \E i \in Idx : IsPageWrite(i) /\ trace[i].url = base_url
    /\ \E i \in Idx : IsPageFetch(i) /\ trace[i].url = PageUrl(1)

\* C9: no two distinct remote URLs recorded in the ledger map to the same
\* local path, also when they differ only in host or only in fragment.
C9_LedgerInjective ==
    \A u, v \in DOMAIN persistent_store :
        u # v => persistent_store[u] # persistent_store[v]

\* the entries of an allow-list
EntriesOf(only) == {only.list[i] : i \in 1..Len(only.list)}

\* C10: with no allow-list should_process_resource_type is true for every
\* kind; with an allow-list it is true for a kind exactly when the kind's
\* canonical name is in the list.
C10_FilterExact ==
    probe.fn = "should_process_resource_type" =>
        (probe.out <=> (~only_resources.some
                        \/ type_str(probe.kind) \in EntriesOf(only_resources)))

\* two strings that differ at most in the case of their letters
SameLetters(a, b) ==
    /\ Len(a) = Len(b)
    /\ \A i \in 1..Len(a) :
          \/ a[i] = b[i]
          \/ \E k \in 1..26 : {a[i], b[i]} = {UpperChars[k], LowerChars[k]}

\* C10 as amended: with an allow-list the predicate is true for a kind
\* exactly when some entry of the list is the kind's canonical name in any
\* letter case; with the list {images, css} it is true for Image and
\* Stylesheet only.
C10_FilterIgnoringCase ==
    probe.fn = "should_process_resource_type" =>
        /\ probe.out <=>
              (~only_resources.some
               \/ \E e \in EntriesOf(only_resources) : SameLetters(e, type_str(probe.kind)))
        /\ only_resources = Some(<<type_str("Image"), type_str("CSS")>>) =>
              (probe.out <=> probe.kind \in {"Image", "CSS"})

\* the predicate accepted a kind for an entry in upper case
C10_Witness ==
    /\ probe.fn = "should_process_resource_type"
    /\ only_resources = Some(<< <<"C","S","S">> >>)
    /\ probe.kind = "CSS"
    /\ probe.out

----------------------------------------------------------------------------
(* The allow-list and the fetches of a run *)

\* C11: with an allow-list present, a reference is fetched, as a page or as
\* a resource, only if the canonical name of its kind is in the allow-list.
C11_FilterEnforced ==
    only_resources.some =>
        \A i \in Idx :
            IsFetch(i) => type_str(trace[i].kind) \in EntriesOf(only_resources)

----------------------------------------------------------------------------
(* The ledger: its entries, the files behind them, loading and saving *)

\* every entry of the ledger a is an entry of the ledger b, under the same path
EntriesKept(a, b) == \A u \in DOMAIN a : u \in DOMAIN b /\ b[u] = a[u]

AddedEntries == DOMAIN persistent_store \ DOMAIN LoadStore(clear_store, store_at_start)

\* the resources written so far, each with the file its bytes went to
ResourceWrites ==
    {<<trace[i].url, trace[i].path>> :
        i \in {k \in Idx : trace[k].ev = "write" /\ trace[k].by = "resource"}}

\* C13: for every entry (url, local_path) added to the ledger during a run
\* there is a file at exactly local_path, and the bytes of a URL the run
\* wrote are stored at the path its entry records.
C13_EntriesPointAtFiles ==
    /\ \A u \in AddedEntries : FilePath(persistent_store[u]) \in DOMAIN disk
    /\ \A w \in ResourceWrites : w[2] = FilePath(persistent_store[w[1]])

\* C14: constructing the engine with an absent, unreadable or unparsable
\* ledger file succeeds with an empty ledger, and with the clear flag set the
\* ledger starts empty whatever the file contains.
C14_LoadNeverFatal ==
    /\ phase = "init" => ENABLED new
    /\ phase = "ready" =>
          /\ clear_store => persistent_store = EmptyMap
          /\ ~(store_at_start.exists /\ store_at_start.readable /\ store_at_start.parses)
                => persistent_store = EmptyMap

\* the engine was constructed, without the clear flag, over a file that
\* holds entries and cannot be parsed
C14_Witness ==
    /\ phase = "ready"
    /\ ~clear_store
    /\ store_at_start.exists /\ store_at_start.readable /\ ~store_at_start.parses
    /\ store_at_start.downloads # EmptyMap
    /\ persistent_store = EmptyMap

\* the write of the ledger file itself failed
SaveFailed == result = "Ok" /\ last_error = "write"

\* C15: whenever mirror_website returns, whichever way the run ended, every
\* entry recorded during the run is in the persisted ledger file (a run whose
\* write of the ledger file itself failed is left aside).
C15_LedgerFlushed ==
    (phase = "done" /\ ~SaveFailed) =>
        /\ AddedEntries # {} => store_file.exists /\ store_file.readable /\ store_file.parses
        /\ \A u \in AddedEntries :
              /\ u \in DOMAIN store_file.downloads
              /\ store_file.downloads[u] = persistent_store[u]

----------------------------------------------------------------------------
(* The references of the saved pages *)

\* the pages whose HTML has been saved
PagesWritten == {trace[i].url : i \in {k \in Idx : IsPageWrite(k)}}

\* C16: each replaced reference of a saved page is the relative path, with
\* '../' as needed, from the directory of the page's own local path to the
\* local path of the resource.
C16_ReferencesRelativeToPage ==
    \A p \in PagesWritten :
        \A r \in ReplacedOf[p][convert_to_webp] : r.value = r.relative

\* C17: a reference of a page is replaced by a local path only if, when the
\* page is saved, the resource has been fetched and written or is in the
\* ledger; a reference whose fetch failed keeps its original URL.
C17_OnlyMaterialisedRewritten ==
    (trace # <<>> /\ IsPageWrite(Len(trace))) =>
        \A r \in ReplacedOf[trace[Len(trace)].url][convert_to_webp] :
            r.url \in DOMAIN persistent_store

----------------------------------------------------------------------------
(* The WebP translation *)

JpegPngExts == {ExtJpg, ExtJpeg, ExtPng, ExtJPG, ExtJPEG, ExtPNG}

\* the last n characters of s
Suffix(s, n) == SubSeq(s, Len(s) - n + 1, Len(s))

\* s ends in .jpg, .jpeg or .png written in any letter case
EndsInJpegPngAnyCase(s) ==
    \E e \in {ExtJpg, ExtJpeg, ExtPng} :
        Len(s) >= Len(e) /\ ToLowercase(Suffix(s, Len(e))) = e

\* C18: with conversion enabled the local path of every URL that ends in
\* .jpg, .jpeg or .png, in any letter case, ends in .webp, and the local path
\* of every other URL is unchanged; with conversion disabled the local path
\* is always unchanged.
C18_WebpTargeting ==
    probe.fn = "get_local_path_for_resource_static" =>
        IF convert_to_webp /\ EndsInJpegPngAnyCase(UrlString(probe.url))
        THEN EndsWith(probe.out, ExtWebp)
        ELSE probe.out = url_to_local_path_string(probe.url)

\* the path with the extension it ends in replaced by .webp
LastExtensionToWebp(path) ==
    LET e == CHOOSE x \in JpegPngExts : EndsWith(path, x)
    IN SubSeq(path, 1, Len(path) - Len(e)) \o ExtWebp

\* C19: translating a path to WebP replaces only the extension the path ends
\* in and leaves every other character unchanged, also when a directory or
\* the file name contains .jpg, .jpeg or .png elsewhere.
C19_OnlyTrailingExtension ==
    (/\ probe.fn \in {"get_local_path_for_resource_static", "save_path"}
     /\ convert_to_webp
     /\ IsConvertible(probe.url)) =>
        probe.out = LastExtensionToWebp(url_to_local_path_string(probe.url))

\* how often pat occurs in s
Occurrences(s, pat) ==
    Cardinality({i \in 1..(Len(s) - Len(pat) + 1) : SubSeq(s, i, i + Len(pat) - 1) = pat})

\* C20: the output of perform_comprehensive_webp_replacement contains none
\* of .jpg, .jpeg, .png, .JPG, .JPEG, .PNG, every .webp and .WEBP of the input
\* is still there, no .webp.webp is created, and the pass applied a second
\* time changes nothing.
C20_ComprehensivePass ==
    probe.fn = "perform_comprehensive_webp_replacement" =>
        /\ \A e \in JpegPngExts : Occurrences(probe.out, e) = 0
        /\ Occurrences(probe.out, ExtWebp) >= Occurrences(probe.text, ExtWebp)
        /\ Occurrences(probe.out, ExtWEBP) = Occurrences(probe.text, ExtWEBP)
        /\ Occurrences(probe.out, ExtWebp \o ExtWebp)
              <= Occurrences(probe.text, ExtWebp \o ExtWebp)
        /\ probe.again = probe.out

----------------------------------------------------------------------------
(* Reading and rewriting a page *)

\* the kind extract_resources gives the reference of an element, "" if the
\* element carries none
KindOfElem(e) ==
    IF e.tag = "link" /\ e.rel = "stylesheet" THEN "CSS"
    ELSE IF e.tag = "script" THEN "JavaScript"
    ELSE IF e.tag = "img" THEN "Image"
    ELSE IF e.tag = "a" THEN "Link"
    ELSE ""

\* how many elements of the document carry the URL u as a reference of kind k
ElemCount(doc, u, k) ==
    Cardinality({i \in 1..Len(doc) : doc[i].ref = u /\ KindOfElem(doc[i]) = k})

\* how many of the references are the URL u with kind k
RefCount(refs, u, k) ==
    Cardinality({i \in 1..Len(refs) :
                    refs[i].original_url = u /\ refs[i].resource_type = k})

\* C21: extract_resources yields exactly one reference for each stylesheet
\* link, script src, img src and anchor href of the document, so a document
\* with one stylesheet link, one img and one anchor yields 3 references.
C21_OneReferencePerElement ==
    probe.fn = "extract_resources" =>
        /\ \A i \in 1..Len(probe.doc) :
              KindOfElem(probe.doc[i]) # "" =>
                  RefCount(probe.out, probe.doc[i].ref, KindOfElem(probe.doc[i]))
                      = ElemCount(probe.doc, probe.doc[i].ref, KindOfElem(probe.doc[i]))
        /\ Len(probe.out)
              = Cardinality({i \in 1..Len(probe.doc) : KindOfElem(probe.doc[i]) # ""})

\* C22: a reference that is a data: URI, a pure fragment, or a mailto:, tel:
\* or javascript: URL fails to resolve, create_resource_link returns an error
\* for it, extraction yields no reference for it and no fetch is attempted.
C22_IneligibleSkipped ==
    (probe.fn = "create_resource_link" /\ probe.url \in IneligibleRefs) =>
        /\ ~probe.resolved.ok
        /\ ~probe.out.ok
        /\ probe.extracted = <<>>
        /\ ~probe.fetch

\* the URL has a path without a '.', not ending in '/', and a query
ExtensionlessWithQuery(u) ==
    /\ Len(u.path) > 1
    /\ ~Contains(u.path, ".")
    /\ ~EndsWith(u.path, <<"/">>)
    /\ u.query # <<>>

PathAlphabet ==
    {UpperChars[i] : i \in 1..Len(UpperChars)} \cup {LowerChars[i] : i \in 1..Len(LowerChars)}
        \cup {DigitChars[i] : i \in 1..Len(DigitChars)} \cup {"/", ".", "-", "_"}

----------------------------------------------------------------------------
(* The download queue *)

\* Critical before High before Normal
PriorityRank(priority) ==
    IF priority = "Critical" THEN 0 ELSE IF priority = "High" THEN 1 ELSE 2

\* task a is to be popped no later than task b
PopsNoLater(a, b) ==
    \/ PriorityRank(a.priority) < PriorityRank(b.priority)
    \/ a.priority = b.priority /\ a.depth <= b.depth

\* C25: whatever tasks were pushed in whatever order, the heap pops every
\* Critical task before every High task and every High task before every
\* Normal task, and of two tasks of equal priority the one with the lower
\* depth first.
C25_CriticalFirst ==
    probe.fn = "BinaryHeap" =>
        /\ \A i, j \in 1..Len(probe.popped) :
              i < j => PopsNoLater(probe.popped[i], probe.popped[j])
        /\ \A i \in 1..Len(probe.popped), k \in 1..Len(probe.heap) :
              PopsNoLater(probe.popped[i], probe.heap[k])

----------------------------------------------------------------------------
(* The visited set *)

\* C26: across every step of a run the set of visited URLs only grows, and
\* every URL whose page fetch was started is in the set.
C26_VisitedMonotone ==
    /\ [][visited_urls \subseteq visited_urls']_vars
    /\ [](\A i \in Idx : IsPageFetch(i) => trace[i].url \in visited_urls)

\* a finished run that claimed the seed, a chain page and more, and fetched
\* the chain page
C26_Witness ==
    /\ phase = "done"
    /\ Cardinality(visited_urls) >= 3
    /\ {base_url, PageUrl(1)} \subseteq visited_urls
    /\ \E i \in Idx : IsPageFetch(i) /\ trace[i].url = PageUrl(1)

----------------------------------------------------------------------------
(* Stylesheet bodies *)

\* the stylesheets whose body was fetched and saved, by position in the history
SheetsSaved ==
    {i \in Idx : trace[i].ev = "write" /\ trace[i].by = "resource"
                    /\ BackgroundsOf(trace[i].url) # {}}

\* C27: for every stylesheet whose body was fetched, the background images
\* its body refers to are fetched next, before the page that referenced the
\* stylesheet goes on.
C27_BackgroundsMirrored ==
    \A i \in SheetsSaved :
        i < Len(trace) =>
            \A b \in BackgroundsOf(trace[i].url) :
                \E j \in Idx :
                    /\ j > i
                    /\ IsFetch(j) /\ trace[j].url = b
                    /\ \A k \in (i + 1)..(j - 1) :
                          IsFetch(k) /\ trace[k].url \in BackgroundsOf(trace[i].url)

----------------------------------------------------------------------------
(* Rewriting the references of a page *)

\* C28: when a page is rewritten, the URL of every same-site hyperlink is
\* replaced by the local path of the page it points at.
C28_PageLinksRewritten ==
    probe.fn = "updated_html" =>
        \A i \in 1..Len(probe.doc) :
            (probe.doc[i].tag = "a" /\ is_same_domain(probe.doc[i].ref)) =>
                probe.out[i] = url_to_local_path_string(probe.doc[i].ref)

\* the element carries a reference the rewrite has a pass for
IsRewritten(e) == KindOfElem(e) \in {"CSS", "JavaScript", "Image"}

\* s is a proper prefix of t
ProperPrefix(s, t) == Len(s) < Len(t) /\ SubSeq(t, 1, Len(s)) = s

\* the local path the reference of an element ends up at, seen from a page
\* in the root directory
FinalPathOf(e) == final_local_path(e.ref, convert_to_webp /\ e.tag = "img")

\* C29: for every pair of references of a page where one URL is a proper
\* prefix of the other, after rewriting each of the two URLs is replaced by
\* the final local path of its own reference, in whatever order the two appear.
C29_NoPrefixCorruption ==
    probe.fn = "updated_html" =>
        \A i, j \in 1..Len(probe.doc) :
            (/\ IsRewritten(probe.doc[i]) /\ IsRewritten(probe.doc[j])
             /\ ProperPrefix(UrlString(probe.doc[i].ref), UrlString(probe.doc[j].ref))) =>
                /\ probe.out[i] = FinalPathOf(probe.doc[i])
                /\ probe.out[j] = FinalPathOf(probe.doc[j])

----------------------------------------------------------------------------
(* Images that cannot be decoded *)

\* C30: with conversion enabled, when the bytes fetched for a .jpg, .jpeg or
\* .png URL cannot be decoded, the original bytes are written at the
\* original local path, the ledger records that path, and the fetch is not
\* treated as failed.
C30_DecodeFailureFallback ==
    (/\ probe.fn = "download_resource"
     /\ convert_to_webp
     /\ EndsWithAny(UrlString(probe.url), {ExtJpg, ExtJpeg, ExtPng})
     /\ ~probe.decodes) =>
        /\ probe.content = "original"
        /\ probe.save_path = url_to_local_path_string(probe.url)
        /\ probe.recorded = url_to_local_path_string(probe.url)
        /\ probe.result = "Ok"

----------------------------------------------------------------------------
(* Files found on disk *)

\* the file of the reference called for at position i was on disk when the
\* run began
OnDiskAtStart(i) ==
    /\ store_at_start.exists
    /\ ResourceFileOf[trace[i].url][convert_to_webp] \in DOMAIN PrevDisk

\* the call at position i went on to the HTTP fetch
WentOnToFetch(i) ==
    /\ i < Len(trace)
    /\ IsResFetch(i + 1)
    /\ trace[i + 1].url = trace[i].url

\* C31: when a resource URL is not in the ledger but the file at its target
\* local path already exists under the output root, download_resource
\* records the URL in the ledger and performs no fetch.
C31_ExistingFileNoFetch ==
    \A i \in Idx :
        (IsCall(i) /\ ~trace[i].cached /\ OnDiskAtStart(i)) =>
            /\ ~WentOnToFetch(i)
            /\ trace[i].url \in DOMAIN persistent_store

----------------------------------------------------------------------------
(* The fetch policy *)

\* the host is the target host or a subdomain of it
OnTargetHost(host) ==
    host = HostT \/ (Len(host) > Len(HostT) + 1
                     /\ SubSeq(host, Len(host) - Len(HostT), Len(host)) = <<".">> \o HostT)

\* C32: the fetch-policy decision for a reference of kind Other is true only
\* when the reference's host is the target host or a subdomain of it.
C32_OtherOnlyFromTarget ==
    (probe.fn = "should_download_resource" /\ probe.kind = "Other") =>
        (probe.out <=> OnTargetHost(probe.url.host))

\* C33: every URL returned by extract_additional_image_urls has a host
\* different from the target site's host; same-site URLs, relative URLs that
\* resolve to the target host included, are never returned.
C33_OnlyOffSite ==
    probe.fn = "extract_additional_image_urls" =>
        \A v \in probe.out :
            /\ resolve_url_result(v, base_url).ok
            /\ resolve_url_result(v, base_url).host # HostT

----------------------------------------------------------------------------
(* The directory index *)

\* a path as a parsed URL has it: without '.' and '..' segments
IsNormalPath(path) ==
    \A k \in 1..Len(Segments(path)) : Segments(path)[k] \notin {<<".">>, <<".", ".">>}

\* the path with /index.html appended when its final segment has no '.'
IndexedByFinalSegment(path) ==
    IF Contains(LastSegment(Segments(path)), ".") THEN path ELSE path \o <<"/">> \o IndexHtml

\* C34: for every URL whose path is non-empty and does not end in '/',
\* /index.html is appended exactly when the final path segment contains no
\* '.', whether or not an earlier segment contains one.
C34_FinalSegmentDecides ==
    (/\ probe.fn = "url_to_local_path"
     /\ Len(probe.url.path) > 1
     /\ ~EndsWith(probe.url.path, <<"/">>)
     /\ IsNormalPath(probe.url.path)) =>
        probe.out = sanitize_path(with_query(IndexedByFinalSegment(Tail(probe.url.path)),
                                             probe.url.query))

----------------------------------------------------------------------------
(* URLs that differ in their query *)

\* C35: two URLs of the same host and path that differ only in their query,
\* whose sanitized queries differ, get different local paths and are written
\* to different files.
C35_QueriesDoNotCollide ==
    (/\ probe.fn = "save_file"
     /\ sanitize_path(probe.first.query) # sanitize_path(probe.second.query)) =>
        /\ probe.first_path # probe.second_path
        /\ probe.first_file # probe.second_file

----------------------------------------------------------------------------
(* Pages and the ledger *)

\* the pages fetched or written so far
PagesTouched == {trace[i].url : i \in {k \in Idx : IsPageFetch(k) \/ IsPageWrite(k)}}

\* the pages a depth check turned away
DepthSkipped == {trace[i].url : i \in {k \in Idx : trace[k].ev = "depth_skip"}}

\* C36: fetching, rewriting and writing a page adds no ledger entry keyed by
\* the page's URL, and a claimed page within the depth limit is fetched also
\* when its file is on disk or its URL is in the loaded ledger.
C36_PagesNotCached ==
    /\ PagesTouched \cap AddedEntries = {}
    /\ \A u \in visited_urls \ DepthSkipped :
          \/ \E i \in Idx : IsPageFetch(i) /\ trace[i].url = u
          \/ stack # <<>> /\ Top.url = u /\ Top.pc = "fetch"

\* a finished run that fetched and wrote the seed page again although the
\* loaded ledger names it and its file was on disk, and added no entry for it
C36_Witness ==
    /\ phase = "done"
    /\ base_url \in DOMAIN store_at_start.downloads
    /\ base_url \in DOMAIN LoadStore(clear_store, store_at_start)
    /\ PageFileOf[base_url] \in DOMAIN RerunDisk
    /\ \E i \in Idx : IsPageFetch(i) /\ trace[i].url = base_url
    /\ \E i \in Idx : IsPageWrite(i) /\ trace[i].url = base_url
    /\ \E i \in Idx : IsPageWrite(i) /\ trace[i].url = PageUrl(1)
    /\ PageUrl(1) \notin DOMAIN persistent_store

----------------------------------------------------------------------------
(* Pages beyond the depth limit *)

\* C37: a page first reached at a depth greater than max_depth is never
\* fetched in the same run, also when another link reaches it at a depth
\* within max_depth.
C37_DepthSkippedStaysClaimed ==
    /\ DepthSkipped \subseteq visited_urls
    /\ DepthSkipped \cap Fetched = {}

\* a finished run in which the last chain page was turned away at depth 2,
\* was then reached from the seed at depth 1, and was never fetched
C37_Witness ==
    /\ phase = "done"
    /\ max_depth = 1
    /\ \E i, j \in Idx :
          /\ i < j
          /\ trace[i].ev = "depth_skip" /\ trace[i].url = PageUrl(ChainLen)
          /\ trace[i].depth = 2
          /\ IsVisit(j) /\ trace[j].url = PageUrl(ChainLen) /\ trace[j].depth = 1
    /\ \A k \in Idx : ~(IsPageFetch(k) /\ trace[k].url = PageUrl(ChainLen))

----------------------------------------------------------------------------
(* Failed fetches of resources *)

\* the step ends a download_resource whose request, status or body failed
FailedResourceFetch ==
    /\ Len(trace') > Len(trace)
    /\ trace'[Len(trace')].ev = "fault"
    /\ trace'[Len(trace')].by = "resource"
    /\ last_error' \in {"send", "status", "body"}

\* the page that called download_resource goes on
CallerGoesOn ==
    /\ phase' = phase
    /\ result' = result
    /\ Len(stack') = Len(stack)
    /\ stack'[Len(stack')].url = Top.url
    /\ stack'[Len(stack')].pc \in {"download", "save"}

\* C38: when download_resource ends because of a transport error, a status
\* other than 200 or a body-read error, the ledger is unchanged, no file is
\* written, and the call returns success to its caller.
C38_FailedFetchChangesNothing ==
    [][FailedResourceFetch =>
          /\ persistent_store' = persistent_store
          /\ disk' = disk
          /\ CallerGoesOn]_vars

\* the fetch of the seed's script failed; neither the ledger nor the disk has
\* anything for it, the page went on to be saved and the run returned Ok
C38_Witness ==
    /\ \E i \in Idx : /\ IsFault(i) /\ trace[i].by = "resource" /\ trace[i].url = JsD
                      /\ \E j \in Idx : j > i /\ IsPageWrite(j) /\ trace[j].url = base_url
    /\ JsD \notin DOMAIN persistent_store
    /\ ResourceFileOf[JsD][convert_to_webp] \notin DOMAIN disk
    /\ phase = "done"
    /\ result = "Ok"

----------------------------------------------------------------------------
(* An allow-list without html *)

\* the run has an allow-list and none of its entries is html, in any case
ListWithoutHtml ==
    /\ only_resources.some
    /\ \A i \in 1..Len(only_resources.list) : ToLowercase(only_resources.list[i]) # Html4

----------------------------------------------------------------------------
(* The claim of a page *)

\* the callers for u that are past the membership test
PastClaim(u) == {c \in Callers : probe.url[c] = u /\ probe.pc[c] \in {"insert", "proceeds"}}

\* every call has returned or gone on
AllClaimsSettled == \A c \in Callers : probe.pc[c] \in {"returned", "proceeds"}

\* C40: however process_page calls for the same URL interleave, exactly one
\* of them gets past the claim and fetches the page.
C40_ClaimAtomic ==
    probe.fn = "process_page" =>
        \A u \in ClaimUrls :
            /\ Cardinality(PastClaim(u)) <= 1
            /\ (AllClaimsSettled /\ \E c \in Callers : probe.url[c] = u) =>
                  Cardinality(PastClaim(u)) = 1

\* three calls for the seed: the second to take the lock went on, the others
\* returned
C40_Witness ==
    /\ probe.fn = "process_page"
    /\ \A c \in Callers : probe.url[c] = base_url
    /\ probe.pc = [c \in Callers |-> IF c = 2 THEN "proceeds" ELSE "returned"]
    /\ visited_urls = {base_url}

====
